---- MODULE Spec2Model ----
(***************************************************************************)
(* A model of the request helpers of the AJAX tutorial corpus:             *)
(*   - AuthAPI (Solution 3.1): login / logout / _request / _refreshToken   *)
(*   - the three TTL caches: RequestCache (ajax-complete-guide.js),        *)
(*     CachedFetch (Solution 2.2) and SimpleCache + cachedFetch            *)
(*     (INTERVIEW-PREP.md)                                                 *)
(* JavaScript runs one synchronous stretch of code at a time; an action of *)
(* the model is one such stretch: from a call or the arrival of an awaited *)
(* result up to the next await whose result comes from the outside (a      *)
(* fetch, the reading of a response body), together with the microtasks    *)
(* that the stretch makes runnable.                                        *)
(***************************************************************************)
EXTENDS Integers, Sequences, FiniteSets, TLC

\* ------------------------------------------------------------------ bounds
MaxReq == 2        \* logical AuthAPI._request calls
MaxRefresh == 2    \* refresh operations started (POST /auth/refresh)
MaxDispatch == 3   \* dispatches of one logical request

Reqs == 1 .. MaxReq
Refs == 1 .. MaxRefresh

\* ------------------------------------------------------------- AuthAPI state
VARIABLES
  token,           \* this.token
  refreshPromise,  \* this.refreshPromise: the id of a refresh, NoPromise for null
  stored,          \* localStorage['auth_token']
  req,             \* the _request calls: position and history of each
  ref,             \* the refresh operations (the async IIFE of _refreshToken)
  refreshCount,    \* number of refresh operations started so far
  loginSt,         \* position of the login call
  sessionUsed,     \* history: login or logout has been called
  logoutMark       \* history: a logout hit an in-flight refresh, and since then
                   \* no login succeeded and no refresh was started

authVars == <<token, refreshPromise, stored, req, ref, refreshCount,
              loginSt, sessionUsed, logoutMark>>

\* --------------------------------------------------------------- cache state
\* One cache object is under test in a behaviour: impl says of which class.
VARIABLES
  impl,    \* "RequestCache" | "CachedFetch" | "SimpleCache" (with cachedFetch)
  ttl,     \* this.ttl
  now,     \* Date.now()
  cache,   \* this.cache: a Map, modelled as a function on the keys it holds
  call     \* the fetch calls: position and history of each

cacheVars == <<impl, ttl, now, cache, call>>

\* --------------------------------------------------------------- retry state
\* One call of one retry wrapper is under test in a behaviour.
VARIABLES
  rimpl,       \* "guide" (fetchWithRetry of ajax-complete-guide.js), "solution"
               \* (fetchWithRetry of Solution 2.3) or "backoff" (retryWithBackoff)
  maxRetries,  \* the retry limit given to the call: retries / maxRetries
  baseDelay,   \* the delay / baseDelay argument (Solution 2.3 has none)
  rst,         \* position of the call
  attempt,     \* the loop variable: i / attempt
  delay,       \* the delay variable of the guide's fetchWithRetry
  rerr,        \* the error the call rejected with
  sent,        \* history: number of transport calls made
  outs,        \* history: the outcomes of the transport calls
  waits,       \* history: the delays handed to setTimeout
  waited       \* history: the time each wait took

retryVars == <<rimpl, maxRetries, baseDelay, rst, attempt, delay, rerr, sent,
               outs, waits, waited>>

\* ------------------------------------------------------------- timeout state
\* One call of one timeout wrapper is under test in a behaviour.
VARIABLES
  timpl,           \* which wrapper: see TimeoutImpls
  hasSignal,       \* the caller passed options.signal
  sigAborted,      \* options.signal.aborted
  tst,             \* position of the call
  timer,           \* the timer of setTimeout(() => controller.abort(), ...)
  ctlAborted,      \* controller.signal.aborted
  tstatus,         \* the status of the response received (0: none)
  terr,            \* the error the call rejected with
  callerAborted,   \* history: the caller aborted its signal while the call was
                   \* in flight
  abortedByCaller  \* history: that abort reached the transport call

timeoutVars == <<timpl, hasSignal, sigAborted, tst, timer, ctlAborted, tstatus, terr,
                 callerAborted, abortedByCaller>>

\* -------------------------------------------------------------- search state
\* One search object is under test in a behaviour.
VARIABLES
  simpl,           \* the class of the object: see SearchImpls
  timeoutId,       \* this.timeoutId: the timer of a search call, NoTimer for null
  abortController, \* this.abortController / this.controller: the controller
                   \* made for a search call, NoController for null
  latestSearchId,  \* this.latestSearchId / this.latestId
  searches,        \* the search calls: position and history of each
  requests,        \* history: the transport requests sent, in order
  sclock,          \* the time
  burst            \* history: only search calls were made, each less than the
                   \* delay after the one before

searchVars == <<simpl, timeoutId, abortController, latestSearchId, searches,
                requests, sclock, burst>>

\* ---------------------------------------------------------------- feed state
\* One paginated feed is under test in a behaviour.
VARIABLES
  fimpl,      \* the class of the feed: see FeedImpls
  page,       \* this._currentPage / this.page
  items,      \* this._items / this.items / the rendered items: the number of the
              \* page each appended batch came from
  isLoading,  \* this._isLoading / this.isLoading
  hasMore,    \* this._hasMore / this.hasMore
  loads,      \* the loadNext / loadMore calls: position and history of each
  requested,  \* history: the page numbers requested, in order
  resetUsed,  \* history: reset() has been called
  pristine    \* history: reset() has been called and no loadNext call since

feedVars == <<fimpl, page, items, isLoading, hasMore, loads, requested,
              resetUsed, pristine>>

\* ------------------------------------------------------------- batcher state
\* One RequestBatcher is under test in a behaviour.
VARIABLES
  bimpl,     \* the class of the batcher: see BatcherImpls
  queue,     \* this.queue: the requests waiting for the next batch
  btimer,    \* this.timer / this.timeoutId: NoTimer or the time the timer is due
  bclock,    \* the time, in units of half the batch delay
  breqs,     \* the add / fetch calls: position, promise and history of each
  batches    \* the batch requests sent so far, each with the calls it carries

batcherVars == <<bimpl, queue, btimer, bclock, breqs, batches>>

\* -------------------------------------------------------- long polling state
VARIABLES
  isPolling,  \* this.isPolling
  loops,      \* the start() calls: the position of the loop of each
  polls,      \* history: the poll requests issued so far
  delivered,  \* history: the calls of the data callback so far
  stopMark    \* history: stop() was called and start() not since, with the
              \* polls and delivered of that moment

pollVars == <<isPolling, loops, polls, delivered, stopMark>>

\* -------------------------------------------------------- myPromiseAll state
VARIABLES
  inputs,     \* promises.length of the call under test
  pst,        \* the inputs: "pending", "fulfilled" or "rejected"
  results,    \* const results = []
  completed,  \* let completed = 0
  allSt,      \* the promise myPromiseAll returned: "none" before the call
  order       \* history: the inputs in the order they settled

allVars == <<inputs, pst, results, completed, allSt, order>>

\* ---------------------------------------------------------- uploadFile state
VARIABLES
  usignal,     \* the signal option: "none", "live" or "aborted"
  onProgress,  \* whether the onProgress option is given
  xhr,         \* the XMLHttpRequest: "unsent", "sending", "done", "error", "aborted"
  loaded,      \* event.loaded of the last progress event, in chunks
  reported,    \* the percentage last handed to onProgress, -1 for none
  upload,      \* the promise uploadFile returned: "none" before the call
  cancelled    \* history: the signal was aborted with the upload not completed

uploadVars == <<usignal, onProgress, xhr, loaded, reported, upload, cancelled>>

\* ------------------------------------------------------- AuthService state
VARIABLES
  svcToken,    \* this.token
  svcStored,   \* localStorage 'token'
  svcLogins,   \* the login calls: position of each
  svcCalls,    \* the fetchProtected calls: position and history of each
  expired      \* history: a 401 was handled and no login has succeeded since

svcVars == <<svcToken, svcStored, svcLogins, svcCalls, expired>>

\* -------------------------------------------------------------- debounce state
VARIABLES
  dimpl,    \* the debounce under test: see DebounceImpls
  dtimer,   \* timeoutId / this.debounceTimer of each slot: the invocation whose
            \* timer was set last, NoTimer for undefined
  dclock,   \* the time
  invs      \* the invocations of debounced functions: position and history

debounceVars == <<dimpl, dtimer, dclock, invs>>

\* what the actions of each part leave alone
nonAuthVars == <<cacheVars, retryVars, timeoutVars, searchVars, feedVars,
                 batcherVars, pollVars, allVars, uploadVars, svcVars,
                 debounceVars>>
nonCacheVars == <<authVars, retryVars, timeoutVars, searchVars, feedVars,
                  batcherVars, pollVars, allVars, uploadVars, svcVars,
                  debounceVars>>
nonRetryVars == <<authVars, cacheVars, timeoutVars, searchVars, feedVars,
                  batcherVars, pollVars, allVars, uploadVars, svcVars,
                  debounceVars>>
nonTimeoutVars == <<authVars, cacheVars, retryVars, searchVars, feedVars,
                    batcherVars, pollVars, allVars, uploadVars, svcVars,
                    debounceVars>>
nonSearchVars == <<authVars, cacheVars, retryVars, timeoutVars, feedVars,
                   batcherVars, pollVars, allVars, uploadVars, svcVars,
                   debounceVars>>
nonFeedVars == <<authVars, cacheVars, retryVars, timeoutVars, searchVars,
                 batcherVars, pollVars, allVars, uploadVars, svcVars,
                 debounceVars>>
nonBatcherVars == <<authVars, cacheVars, retryVars, timeoutVars, searchVars,
                    feedVars, pollVars, allVars, uploadVars, svcVars,
                    debounceVars>>
nonPollVars == <<authVars, cacheVars, retryVars, timeoutVars, searchVars,
                 feedVars, batcherVars, allVars, uploadVars, svcVars,
                 debounceVars>>
nonAllVars == <<authVars, cacheVars, retryVars, timeoutVars, searchVars,
                feedVars, batcherVars, pollVars, uploadVars, svcVars,
                debounceVars>>
nonUploadVars == <<authVars, cacheVars, retryVars, timeoutVars, searchVars,
                   feedVars, batcherVars, pollVars, allVars, svcVars,
                   debounceVars>>
nonSvcVars == <<authVars, cacheVars, retryVars, timeoutVars, searchVars,
                feedVars, batcherVars, pollVars, allVars, uploadVars,
                debounceVars>>
nonDebounceVars == <<authVars, cacheVars, retryVars, timeoutVars, searchVars,
                     feedVars, batcherVars, pollVars, allVars, uploadVars,
                     svcVars>>

vars == <<authVars, cacheVars, retryVars, timeoutVars, searchVars, feedVars,
          batcherVars, pollVars, allVars, uploadVars, svcVars, debounceVars>>

\* Tokens are opaque values handed out by the server; null is Null.
Tok(kind, n) == [kind |-> kind, n |-> n]
Null == Tok("null", 0)
StoredBefore == Tok("stored", 0)   \* a token left in localStorage by an earlier page
LoginToken == Tok("login", 0)      \* the token a successful login answers with
NoPromise == 0

Statuses == {200, 401, 500}

IdleReq == [st |-> "idle", n |-> 0, wait |-> NoPromise, fits |-> FALSE]

\* new AuthAPI(baseURL)
InitAuth ==
  /\ token = Null
  /\ refreshPromise = NoPromise
  /\ stored \in {Null, StoredBefore}
  /\ req = [q \in Reqs |-> IdleReq]
  /\ ref = [r \in Refs |-> "none"]
  /\ refreshCount = 0
  /\ loginSt = "idle"
  /\ sessionUsed = FALSE
  /\ logoutMark = FALSE

\* the IIFE of _refreshToken has been started and has not settled
InFlight(r) == ref[r] = "fetch"
\* the callers suspended in `await this._refreshToken()` on refresh r
Waiters(r) == {q \in Reqs : req[q].st = "waitRefresh" /\ req[q].wait = r}
\* no response of request q has arrived yet
Unanswered(q) == req[q].st = "idle" \/ (req[q].st = "inflight" /\ req[q].n = 1)

\* ---------------------------------------------------------------- login
\* login(): the POST /auth/login is sent
LoginCall ==
  /\ loginSt = "idle"
  /\ loginSt' = "fetch"
  /\ sessionUsed' = TRUE
  /\ UNCHANGED <<token, refreshPromise, stored, req, ref, refreshCount,
                 logoutMark, nonAuthVars>>

\* login settles. !response.ok, a network error or an unreadable body throw; else
\* `const { token } = await response.json()` is kept in memory and stored. (The
\* arrival of the response and the reading of its body are one step: the first
\* changes nothing that another call can see.)
LoginSettle(ok) ==
  /\ loginSt = "fetch"
  /\ loginSt' = "idle"
  /\ IF ok
       THEN /\ token' = LoginToken
            /\ stored' = LoginToken
            /\ logoutMark' = FALSE
       ELSE UNCHANGED <<token, stored, logoutMark>>
  /\ UNCHANGED <<refreshPromise, req, ref, refreshCount, sessionUsed, nonAuthVars>>

\* ---------------------------------------------------------------- logout
\* (mutant) logout() removes the stored token and keeps this.token
LogoutStoreOnly ==
  /\ sessionUsed' = TRUE
  /\ refreshPromise' = NoPromise
  /\ stored' = Null
  /\ logoutMark' = (logoutMark \/ \E r \in Refs : InFlight(r))
  /\ UNCHANGED <<token, req, ref, refreshCount, loginSt, nonAuthVars>>

Logout ==
  /\ sessionUsed' = TRUE
  /\ token' = Null
  /\ refreshPromise' = NoPromise
  /\ stored' = Null
  /\ logoutMark' = (logoutMark \/ \E r \in Refs : InFlight(r))
  /\ UNCHANGED <<req, ref, refreshCount, loginSt, nonAuthVars>>

\* ---------------------------------------------------------------- _request
\* "Load token from storage if not in memory"
LoadToken(tk, st) == IF tk = Null THEN st ELSE tk

\* _request(endpoint, options) up to its await fetch(...). (The calls are made in
\* the order of their numbers.)
RequestCall(q) ==
  /\ req[q].st = "idle"
  /\ \A p \in Reqs : p < q => req[p].st # "idle"
  /\ token' = LoadToken(token, stored)
  /\ req' = [req EXCEPT ![q] =
               [@ EXCEPT !.st = "inflight", !.n = 1,
                         !.fits = \A p \in Reqs : Unanswered(p)]]
  /\ UNCHANGED <<refreshPromise, stored, ref, refreshCount, loginSt, sessionUsed,
                 logoutMark, nonAuthVars>>

\* _refreshToken(): if (this.refreshPromise) return this.refreshPromise
JoinsRefresh(p) == p # NoPromise

\* the response of a dispatched request arrives. fits is history: the request was
\* called before any response arrived, its first response was a 401 and every
\* later one a 200.
Response(q, status) ==
  /\ req[q].st = "inflight"
  /\ LET r0 == [req[q] EXCEPT
                  !.fits = @ /\ (IF req[q].n = 1 THEN status = 401
                                                 ELSE status = 200)]
     IN
     CASE status = 401 ->
            \* await this._refreshToken(), then return this._request(...)
            /\ req[q].n < MaxDispatch
            /\ IF JoinsRefresh(refreshPromise)
                 THEN /\ req' = [req EXCEPT ![q] =
                                   [r0 EXCEPT !.st = "waitRefresh",
                                              !.wait = refreshPromise]]
                      /\ UNCHANGED <<refreshPromise, ref, refreshCount, logoutMark>>
                 ELSE /\ refreshCount < MaxRefresh
                      /\ refreshCount' = refreshCount + 1
                      /\ refreshPromise' = refreshCount + 1
                      /\ ref' = [ref EXCEPT ![refreshCount + 1] = "fetch"]
                      /\ req' = [req EXCEPT ![q] =
                                   [r0 EXCEPT !.st = "waitRefresh",
                                              !.wait = refreshCount + 1]]
                      /\ logoutMark' = FALSE
       [] status = 200 ->
            /\ req' = [req EXCEPT ![q] = [r0 EXCEPT !.st = "done"]]
            /\ UNCHANGED <<refreshPromise, ref, refreshCount, logoutMark>>
       [] OTHER ->
            \* throw new Error(`HTTP ${response.status}`)
            /\ req' = [req EXCEPT ![q] = [r0 EXCEPT !.st = "failed"]]
            /\ UNCHANGED <<refreshPromise, ref, refreshCount, logoutMark>>
  /\ UNCHANGED <<token, stored, loginSt, sessionUsed, nonAuthVars>>

\* ---------------------------------------------------------------- _refreshToken
\* (mutant) the catch block rethrows without calling this.logout()
RefreshFailNoLogout(r) ==
  /\ refreshPromise' = NoPromise
  /\ ref' = [ref EXCEPT ![r] = "failed"]
  /\ req' = [q \in Reqs |->
               IF q \in Waiters(r) THEN [req[q] EXCEPT !.st = "authFailed"]
                                   ELSE req[q]]
  /\ UNCHANGED <<token, stored, refreshCount, loginSt, sessionUsed,
                 logoutMark, nonAuthVars>>

\* catch: this.logout(); throw error -- finally: this.refreshPromise = null.
\* Every caller awaiting the promise is rejected and does not reach its retry.
RefreshFail(r) ==
  /\ token' = Null
  /\ stored' = Null
  /\ refreshPromise' = NoPromise
  /\ ref' = [ref EXCEPT ![r] = "failed"]
  /\ req' = [q \in Reqs |->
               IF q \in Waiters(r) THEN [req[q] EXCEPT !.st = "authFailed"]
                                   ELSE req[q]]
  /\ UNCHANGED <<refreshCount, loginSt, sessionUsed, logoutMark, nonAuthVars>>

\* const { token } = await response.json(): the token the refresh answers with
RefreshedToken(r) == Tok("refresh", r)

\* the token is written, finally clears this.refreshPromise, and every caller
\* awaiting the promise runs `return this._request(endpoint, options)` up to its
\* fetch
RefreshSucceed(r) ==
  /\ token' = RefreshedToken(r)
  /\ stored' = RefreshedToken(r)
  /\ refreshPromise' = NoPromise
  /\ ref' = [ref EXCEPT ![r] = "ok"]
  /\ req' = [q \in Reqs |->
               IF q \in Waiters(r)
                 THEN [req[q] EXCEPT !.st = "inflight", !.n = @ + 1]
                 ELSE req[q]]
  /\ UNCHANGED <<refreshCount, loginSt, sessionUsed, logoutMark, nonAuthVars>>

\* the refresh settles: !response.ok, a network error or an unreadable body throw
\* inside the try. (As in login, the arrival of the response and the reading of
\* its body are one step.)
RefreshSettle(r, ok) ==
  /\ ref[r] = "fetch"
  /\ IF ok THEN RefreshSucceed(r) ELSE RefreshFail(r)

NextAuth ==
  \/ LoginCall
  \/ \E ok \in BOOLEAN : LoginSettle(ok)
  \/ Logout
  \/ \E q \in Reqs : RequestCall(q)
  \/ \E q \in Reqs, s \in Statuses : Response(q, s)
  \/ \E r \in Refs, ok \in BOOLEAN : RefreshSettle(r, ok)

\* ------------------------------------------------------------ AuthAPI claims

\* C1: at most one token refresh (POST /auth/refresh) is in flight at any time,
\* under any interleaving of _request, login and logout calls.
C1_AtMostOneRefreshInFlight ==
  Cardinality({r \in Refs : InFlight(r)}) <= 1

\* C2: when the concurrent requests each receive a 401 (no login or logout call is
\* made, and every re-dispatched request is answered 200), exactly one refresh is
\* performed in total, and the requests all succeed or all fail with the refresh
\* error.
C2_SingleRefreshForConcurrent401s ==
  (/\ ~sessionUsed
   /\ \A q \in Reqs : ~Unanswered(q) /\ req[q].fits)
  => /\ refreshCount = 1
     /\ (\A q \in Reqs : req[q].st \in {"done", "authFailed"})
          => \/ \A q \in Reqs : req[q].st = "done"
             \/ \A q \in Reqs : req[q].st = "authFailed"

\* C3: after a logout made while a refresh was in flight, the in-memory token stays
\* null and the stored credential stays absent until the next successful login,
\* also after the response of that refresh has arrived.
C3_LogoutDiscardsRefresh ==
  logoutMark => token = Null /\ stored = Null

\* C4: one logical request is dispatched at most twice: once, and once more after
\* a 401 and a successful refresh; a 401 on the re-dispatched request starts no
\* further refresh-and-retry cycle.
C4_AtMostTwoDispatches ==
  \A q \in Reqs :
    /\ req[q].n <= 2
    /\ req[q].st = "waitRefresh" => req[q].n = 1

\* C5: when a refresh fails, the token is null, the stored token is removed, no
\* refresh promise is pending, and every caller awaiting that refresh is rejected
\* with the refresh error without being dispatched again.
C5_RefreshFailureStep ==
  \A r \in Refs :
    (InFlight(r) /\ ref'[r] = "failed")
    => /\ token' = Null
       /\ stored' = Null
       /\ refreshPromise' = NoPromise
       /\ \A q \in Waiters(r) :
            /\ req'[q].st = "authFailed"
            /\ req'[q].n = req[q].n

C5_RefreshFailureUnauthenticates == [][C5_RefreshFailureStep]_vars

\* C5 witness: a refresh has failed with every request awaiting it
C5_Witness ==
  \E r \in Refs :
    /\ ref[r] = "failed"
    /\ \A q \in Reqs : req[q].st = "authFailed" /\ req[q].wait = r /\ req[q].n = 1
    /\ token = Null /\ stored = Null /\ refreshPromise = NoPromise


\* C34: at every suspension point of AuthAPI the token in memory, when it is not
\* null, is the token in localStorage.
C34_TokenIsStoredToken ==
  token # Null => token = stored

\* C34 witness: login or logout has been called, a refresh has written a token,
\* and it is in memory and in the store
C34_Witness ==
  /\ sessionUsed
  /\ token # Null
  /\ token.kind = "refresh"
  /\ stored = token

\* ============================================================== TTL caches
MaxCalls == 2      \* fetch calls on the cache
MaxTime == 2       \* last instant of the clock
MaxTtl == 1        \* largest ttl given to the constructor

Calls == 1 .. MaxCalls
Impls == {"RequestCache", "CachedFetch", "SimpleCache"}

\* Strings are sequences of characters, so that key building is concatenation.
\* A request is fetch(url, options); an absent option is the empty string.
Descriptors ==
  { [url |-> <<"/", "a">>, method |-> <<>>, body |-> <<>>, headers |-> <<>>],
    [url |-> <<"/", "a">>, method |-> <<>>, body |-> <<>>, headers |-> <<"t">>] }

\* Parsed response bodies. "zero" stands for the falsy JSON values (0, false, "",
\* null), which `if (cached)` does not tell apart; JsNull is what get() answers
\* for a key it does not hold.
Values == {"zero", "objA"}
JsNull == "null"
Truthy(v) == v \notin {"zero", JsNull}

CacheStatuses == {200, 404}
Ok(status) == status \in 200 .. 299     \* response.ok

\* Map operations
MapHas(m, k) == k \in DOMAIN m
MapSet(m, k, e) == [x \in (DOMAIN m) \cup {k} |-> IF x = k THEN e ELSE m[x]]
MapDelete(m, k) == [x \in (DOMAIN m) \ {k} |-> m[x]]
EmptyMap == [x \in {} |-> 0]

\* JSON.stringify(options) for the options fetch is given here
JsonStringify(d) ==
  <<"{">>
    \o (IF d.method = <<>> THEN <<>> ELSE <<"m", ":">> \o d.method)
    \o (IF d.body = <<>> THEN <<>> ELSE <<"b", ":">> \o d.body)
    \o (IF d.headers = <<>> THEN <<>> ELSE <<"h", ":">> \o d.headers)
    \o <<"}">>

\* RequestCache.fetch: const cacheKey = `${url}${JSON.stringify(options)}`
RequestCacheKey(d) == d.url \o JsonStringify(d)

\* CachedFetch._getCacheKey: `${method}:${url}:${body}`, method || 'GET', body || ''
GetCacheKey(d) ==
  (IF d.method = <<>> THEN <<"G", "E", "T">> ELSE d.method)
    \o <<":">> \o d.url \o <<":">> \o d.body

\* cachedFetch(url): cache.get(url), cache.set(url, data)
SimpleCacheKey(d) == d.url

CacheKey(d) ==
  CASE impl = "RequestCache" -> RequestCacheKey(d)
    [] impl = "CachedFetch" -> GetCacheKey(d)
    [] OTHER -> SimpleCacheKey(d)

\* An entry is {data, timestamp} (RequestCache, CachedFetch) or {value, expiry}
\* (SimpleCache); the rest is history: the status of the response it was read
\* from, and whether its request has been invalidated by hand since.
Entry(v, t, status) ==
  IF impl = "SimpleCache"
    THEN [value |-> v, expiry |-> t + ttl, status |-> status,
          invalidated |-> FALSE]
    ELSE [data |-> v, timestamp |-> t, status |-> status,
          invalidated |-> FALSE]
EntryData(e) == IF impl = "SimpleCache" THEN e.value ELSE e.data
StoredAt(e) == IF impl = "SimpleCache" THEN e.expiry - ttl ELSE e.timestamp

\* What the lookup of a call found, as history: no entry for the key ("none"), or
\* an entry stored less than ttl ago ("fresh"), exactly ttl ago ("edge"), more
\* than ttl ago ("old").
Saw(m, k, t) ==
  IF ~MapHas(m, k) THEN "none"
  ELSE IF t - StoredAt(m[k]) < ttl THEN "fresh"
  ELSE IF t - StoredAt(m[k]) = ttl THEN "edge"
  ELSE "old"

\* st, key, transport (calls of fetch made) and res (the value returned) are the
\* call; the rest is history: conc (a call for the same key was unsettled when
\* this one was made), saw, sawValue (the value of a fresh entry seen) and oldAt
\* (the time of a lookup that saw an old entry), mub (method, url and body of the
\* request) and afterInval (the lookup found an entry that had been invalidated
\* by hand).
IdleCall == [st |-> "idle", key |-> <<>>, transport |-> 0, res |-> "none",
             conc |-> FALSE, saw |-> "none", sawValue |-> "none", oldAt |-> 0,
             mub |-> <<>>, afterInval |-> FALSE]

\* new RequestCache(ttl) / new CachedFetch(ttl) / new SimpleCache(ttl)
InitCache ==
  /\ impl \in Impls
  /\ ttl \in 1 .. MaxTtl
  /\ now = 0
  /\ cache = EmptyMap
  /\ call = [c \in Calls |-> IdleCall]

\* The lookup of a fetch: [served, value, map], map being the Map afterwards.
Miss(m) == [served |-> FALSE, value |-> JsNull, map |-> m]
Hit(v, m) == [served |-> TRUE, value |-> v, map |-> m]

\* RequestCache.fetch: if (cached && Date.now() - cached.timestamp < this.ttl)
RequestCacheLookup(m, k, t) ==
  IF MapHas(m, k) /\ t - m[k].timestamp < ttl THEN Hit(m[k].data, m) ELSE Miss(m)

\* (mutant) the operands of the subtraction are swapped
IsCacheValidSwapped(entry, t) == entry.timestamp - t < ttl

\* CachedFetch._isCacheValid
IsCacheValid(entry, t) == t - entry.timestamp < ttl

\* CachedFetch.fetch: has / _isCacheValid / delete of the expired entry
CachedFetchLookup(m, k, t) ==
  IF MapHas(m, k)
    THEN IF IsCacheValid(m[k], t) THEN Hit(m[k].data, m) ELSE Miss(MapDelete(m, k))
    ELSE Miss(m)

\* SimpleCache.get: [value, map]
SimpleCacheGet(m, k, t) ==
  IF ~MapHas(m, k) THEN [value |-> JsNull, map |-> m]
  ELSE IF t > m[k].expiry THEN [value |-> JsNull, map |-> MapDelete(m, k)]
  ELSE [value |-> m[k].value, map |-> m]

\* cachedFetch: const cached = cache.get(url); if (cached) return cached
SimpleCacheLookup(m, k, t) ==
  LET g == SimpleCacheGet(m, k, t)
  IN  IF Truthy(g.value) THEN Hit(g.value, g.map) ELSE Miss(g.map)

Lookup(m, k, t) ==
  CASE impl = "RequestCache" -> RequestCacheLookup(m, k, t)
    [] impl = "CachedFetch" -> CachedFetchLookup(m, k, t)
    [] OTHER -> SimpleCacheLookup(m, k, t)

\* fetch(url, options) / cachedFetch(url) up to its return or its await fetch(...).
\* (The calls are made in the order of their numbers.)
FetchCall(c, d) ==
  LET k == CacheKey(d)
      L == Lookup(cache, k, now)
      s == Saw(cache, k, now)
      c0 == [call[c] EXCEPT
               !.key = k,
               !.conc = \E o \in Calls : call[o].st = "inflight" /\ call[o].key = k,
               !.saw = s,
               !.sawValue = IF s = "fresh" THEN EntryData(cache[k]) ELSE "none",
               !.oldAt = IF s = "old" THEN now ELSE 0,
               !.mub = <<d.method, d.url, d.body>>,
               !.afterInval = MapHas(cache, k) /\ cache[k].invalidated]
  IN  /\ call[c].st = "idle"
      /\ \A o \in Calls : o < c => call[o].st # "idle"
      /\ cache' = L.map
      /\ call' = [call EXCEPT ![c] =
                    IF L.served
                      THEN [c0 EXCEPT !.st = "done", !.res = L.value]
                      ELSE [c0 EXCEPT !.st = "inflight", !.transport = 1]]
      /\ UNCHANGED <<impl, ttl, now, nonCacheVars>>

\* (mutant) a call that finds a call for the same key in flight joins it
FetchDeduplicated(c, d) ==
  IF \E o \in Calls : call[o].st = "inflight" /\ call[o].key = CacheKey(d)
    THEN /\ call[c].st = "idle"
         /\ call' = [call EXCEPT ![c] =
                       [@ EXCEPT !.st = "joined", !.key = CacheKey(d),
                                 !.conc = TRUE, !.saw = Saw(cache, CacheKey(d), now)]]
         /\ UNCHANGED <<impl, ttl, now, cache, nonCacheVars>>
    ELSE FetchCall(c, d)

\* RequestCache.fetch / CachedFetch.fetch / cachedFetch, first stretch
Fetch(c, d) == FetchCall(c, d)

\* The statuses after which the body is read and stored: CachedFetch throws on
\* !response.ok, RequestCache and cachedFetch read the body whatever the status
ReadsBody(status) == impl # "CachedFetch" \/ Ok(status)

\* await fetch(...) settles with a response of the given status whose body reads
\* as v: this.cache.set(key, {data, timestamp: Date.now()}) / cache.set(url, data);
\* return data. (The arrival of the response and the reading of its body are one
\* step: the first changes nothing that another call can see.)
FetchSettle(c, status, v) ==
  /\ call[c].st = "inflight"
  /\ IF ReadsBody(status)
       THEN /\ cache' = MapSet(cache, call[c].key, Entry(v, now, status))
            /\ call' = [call EXCEPT ![c] = [@ EXCEPT !.st = "done", !.res = v]]
       ELSE /\ call' = [call EXCEPT ![c].st = "failed"]
            /\ UNCHANGED cache
  /\ UNCHANGED <<impl, ttl, now, nonCacheVars>>

\* await fetch(...) rejects (network error) or await response.json() rejects (the
\* body is not JSON): the call rejects
FetchReject(c) ==
  /\ call[c].st = "inflight"
  /\ call' = [call EXCEPT ![c].st = "failed"]
  /\ UNCHANGED <<impl, ttl, now, cache, nonCacheVars>>

\* clear()
CacheClear ==
  /\ cache # EmptyMap
  /\ cache' = EmptyMap
  /\ UNCHANGED <<impl, ttl, now, call, nonCacheVars>>

\* RequestCache.delete(url): this.cache.delete(url);
\* CachedFetch.clearKey(url, options): this.cache.delete(_getCacheKey(url, options))
DeletedKey(d) == IF impl = "RequestCache" THEN d.url ELSE GetCacheKey(d)

\* history: the entry a fetch of request d is answered from, if the map still
\* holds one, is marked as invalidated by hand
MarkInvalidated(m, d) ==
  IF MapHas(m, CacheKey(d))
    THEN [m EXCEPT ![CacheKey(d)] = [@ EXCEPT !.invalidated = TRUE]]
    ELSE m

CacheDelete(d) ==
  /\ impl # "SimpleCache"
  /\ cache' = MarkInvalidated(MapDelete(cache, DeletedKey(d)), d)
  /\ UNCHANGED <<impl, ttl, now, call, nonCacheVars>>

\* time passes
Tick ==
  /\ now < MaxTime
  /\ now' = now + 1
  /\ UNCHANGED <<impl, ttl, cache, call, nonCacheVars>>

NextCache ==
  \/ \E c \in Calls, d \in Descriptors : Fetch(c, d)
  \/ \E c \in Calls, s \in CacheStatuses, v \in Values : FetchSettle(c, s, v)
  \/ \E c \in Calls : FetchReject(c)
  \/ CacheClear
  \/ \E d \in Descriptors : CacheDelete(d)
  \/ Tick

\* ------------------------------------------------------------- cache claims
Past(c) == call[c].st # "idle"
Settled(c) == call[c].st \in {"done", "failed"}
\* later than storedAt + ttl: expired by the test of each of the three caches
LongExpired(e, t) == t > StoredAt(e) + ttl

C7_ExpiredEntryNotServed ==
  \A c \in Calls : (Past(c) /\ call[c].saw = "old") => call[c].transport = 1

\* C7 witness: a call found an entry stored more than ttl ago and fetched anew
C7_Witness ==
  \E c \in Calls :
    call[c].saw = "old" /\ call[c].st = "done" /\ call[c].transport = 1

\* C8: a call that finds a fresh entry for its key returns the stored value and
\* makes no transport call, whatever the stored value is.
C8_FreshEntryServed ==
  \A c \in Calls :
    (Past(c) /\ call[c].saw = "fresh")
    => (/\ call[c].st = "done"
        /\ call[c].transport = 0
        /\ call[c].res = call[c].sawValue)

\* C9: the cache is populated only after a successful (2xx) response: it never
\* holds an entry read from an error response, which a later call would be
\* answered with.
C9_OnlySuccessCached ==
  \A k \in DOMAIN cache : Ok(cache[k].status)

\* C10: once a call whose lookup found an expired entry has settled, successfully
\* or not, the map no longer holds an entry for the key that was expired at the
\* time of the lookup.
C10_ExpiredEntryEvicted ==
  \A c \in Calls :
    (Settled(c) /\ call[c].saw = "old")
    => ~(MapHas(cache, call[c].key)
         /\ LongExpired(cache[call[c].key], call[c].oldAt))

\* C11: a call that finds an entry stored exactly ttl ago (now - storedAt = ttl)
\* treats it as expired in every cache: it is not answered from the entry and
\* makes a transport call.
C11_EntryExpiredAtTtl ==
  \A c \in Calls : (Past(c) /\ call[c].saw = "edge") => call[c].transport = 1

\* C12: a fetch of a request that was invalidated by hand (delete, clearKey or
\* clear) makes a transport call instead of returning the previously cached
\* value: no call is answered from an entry stored before the invalidation.
C12_InvalidatedRequestRefetched ==
  \A c \in Calls : (Past(c) /\ call[c].afterInval) => call[c].transport = 1

\* C13: two requests with the same method, URL and body have the same cache key,
\* whatever their headers.
C13_KeyIgnoresHeaders ==
  \A c, o \in Calls :
    (Past(c) /\ Past(o) /\ call[c].mub = call[o].mub) => call[c].key = call[o].key


\* =========================================================== retry wrappers
MaxRetries == 3    \* largest retry limit given to a call

RetryImpls == {"guide", "solution", "backoff"}
Bases == {500, 1000}           \* base delays given to a call, ms
Lateness == {0, 50}            \* how late a timer fires, ms

\* How an attempt ends: a response with a status whose body reads as JSON
\* ("ok": 200, "s500", "s404"), a 200 whose body is not JSON ("decode"), a
\* network error ("network", fetch rejects with a TypeError) or an abort of the
\* signal in options ("abort", fetch rejects with an AbortError).
Outcomes == {"ok", "s500", "s404", "network", "abort", "decode"}
OutcomeStatus(o) ==
  CASE o = "s500" -> 500 [] o = "s404" -> 404
    [] o \in {"ok", "decode"} -> 200 [] OTHER -> 0

\* An error: its name, what its message starts with, and the status its message
\* carries (0: none).
Err(name, msg, status) == [name |-> name, msg |-> msg, status |-> status]
NoErr == Err("none", "none", 0)

\* The error caught after an attempt of the guide's fetchWithRetry (and of the
\* function given to retryWithBackoff): throw new Error(`HTTP ${response.status}`)
GuideError(o) ==
  CASE o \in {"s500", "s404"} -> Err("Error", "HTTP", OutcomeStatus(o))
    [] o = "network" -> Err("TypeError", "other", 0)
    [] o = "abort" -> Err("AbortError", "other", 0)
    [] OTHER -> Err("SyntaxError", "other", 0)

\* The error caught after an attempt of Solution 2.3: `Client error ${status}`
\* for 400..499, `Server error ${status}` for the other not-ok statuses
SolutionError(o) ==
  CASE o \in {"s500", "s404"} ->
         IF OutcomeStatus(o) >= 400 /\ OutcomeStatus(o) < 500
           THEN Err("Error", "Client error", OutcomeStatus(o))
           ELSE Err("Error", "Server error", OutcomeStatus(o))
    [] OTHER -> GuideError(o)

CaughtError(o) == IF rimpl = "solution" THEN SolutionError(o) ELSE GuideError(o)

\* Solution 2.3: "Don't retry on client errors (4xx) or non-network errors"
NotRetried(e) ==
  \/ e.msg = "Client error"
  \/ (e.name # "TypeError" /\ e.msg # "Server error")

\* new Error(`Failed after ${maxRetries + 1} attempts: ${error.message}`)
FailedAfter(e) == Err("Error", "Failed after", e.status)

Pow2(k) == 2 ^ k     \* Math.pow(2, k)

\* (mutant) the delay grows by the base, not by doubling
BackoffDelayLinear(base, k) == base * (k + 1)

\* retryWithBackoff: const delay = baseDelay * Math.pow(2, attempt)
BackoffDelay(base, k) == base * Pow2(k)

\* Solution 2.3: const delay = Math.pow(2, attempt) * 1000
SolutionDelay(k) == Pow2(k) * 1000

\* the delay handed to setTimeout after the failure of attempt k
DelayFor(k) ==
  CASE rimpl = "guide" -> delay
    [] rimpl = "solution" -> SolutionDelay(k)
    [] OTHER -> BackoffDelay(baseDelay, k)

\* the loop condition: i < retries (guide), attempt <= maxRetries (the others)
LoopGoesOn(k) == IF rimpl = "guide" THEN k < maxRetries ELSE k <= maxRetries

\* the last attempt: i === retries - 1 (guide), attempt === maxRetries
LastAttempt(k) == IF rimpl = "guide" THEN k = maxRetries - 1 ELSE k = maxRetries

\* a call of a wrapper with its arguments
InitRetry ==
  /\ rimpl \in RetryImpls
  /\ maxRetries \in 0 .. MaxRetries
  /\ baseDelay \in IF rimpl = "solution" THEN {SolutionDelay(0)} ELSE Bases
  /\ rst = "idle"
  /\ attempt = 0
  /\ delay = baseDelay
  /\ rerr = NoErr
  /\ sent = 0
  /\ outs = <<>>
  /\ waits = <<>>
  /\ waited = <<>>

\* the call, up to its first await fetch(...): a loop that is not entered falls
\* off the end of the guide's function, which then resolves with undefined
RetryCall ==
  /\ rst = "idle"
  /\ IF LoopGoesOn(0)
       THEN rst' = "inflight" /\ sent' = sent + 1
       ELSE rst' = "done" /\ UNCHANGED sent
  /\ UNCHANGED <<rimpl, maxRetries, baseDelay, attempt, delay, rerr, outs, waits,
                 waited, nonRetryVars>>

\* the attempt ends with outcome o: return the parsed body, or the catch block up
\* to its throw or its await of the timer
RetryOutcome(o) ==
  /\ rst = "inflight"
  /\ outs' = Append(outs, o)
  /\ LET e == CaughtError(o) IN
     IF o = "ok"
       THEN rst' = "done" /\ UNCHANGED <<rerr, waits>>
     ELSE IF rimpl = "solution" /\ NotRetried(e)
       THEN rst' = "failed" /\ rerr' = e /\ UNCHANGED waits
     ELSE IF LastAttempt(attempt)
       THEN /\ rst' = "failed"
            /\ rerr' = IF rimpl = "guide" THEN e ELSE FailedAfter(e)
            /\ UNCHANGED waits
     ELSE /\ rst' = "waiting"
          /\ waits' = Append(waits, DelayFor(attempt))
          /\ UNCHANGED rerr
  /\ UNCHANGED <<rimpl, maxRetries, baseDelay, attempt, delay, sent, waited,
                 nonRetryVars>>

\* the timer fires, not before its delay has elapsed: delay *= 2 (guide), the
\* loop variable is incremented and the next attempt is sent (a loop that ends
\* here reaches `throw lastError` in Solution 2.3, the end of the function in
\* the others)
RetryTimer(late) ==
  /\ rst = "waiting"
  /\ waited' = Append(waited, waits[Len(waits)] + late)
  /\ delay' = IF rimpl = "guide" THEN delay * 2 ELSE delay
  /\ attempt' = attempt + 1
  /\ IF LoopGoesOn(attempt + 1)
       THEN rst' = "inflight" /\ sent' = sent + 1
       ELSE /\ rst' = IF rimpl = "solution" THEN "failed" ELSE "done"
            /\ UNCHANGED sent
  /\ UNCHANGED <<rimpl, maxRetries, baseDelay, rerr, outs, waits, nonRetryVars>>

NextRetry ==
  \/ RetryCall
  \/ \E o \in Outcomes : RetryOutcome(o)
  \/ \E late \in Lateness : RetryTimer(late)

\* ------------------------------------------------------------- retry claims
RetrySettled == rst \in {"done", "failed"}

\* C14: a call with retry limit N whose transport always answers 500 makes
\* exactly N + 1 transport calls and then rejects.
C14_RetryBound ==
  (RetrySettled /\ \A i \in 1 .. Len(outs) : outs[i] = "s500")
  => (rst = "failed" /\ sent = maxRetries + 1)

\* C15: a first response with a 4xx status ends the call: it has rejected and
\* one transport call has been made, whatever the retry limit.
C15_NoRetryOn4xx ==
  (Len(outs) >= 1 /\ outs[1] = "s404") => (rst = "failed" /\ sent = 1)

\* C16: a first attempt that ends in an abort or in a body decoding error ends
\* the call: it has rejected and one transport call has been made.
C16_NoRetryOnAbortOrDecode ==
  (Len(outs) >= 1 /\ outs[1] \in {"abort", "decode"})
  => (rst = "failed" /\ sent = 1)

\* C17: the wait before retry k (k = 0 for the first retry) is base * 2^k, and
\* the retry is sent after that wait has elapsed: never before.
C17_ExponentialBackoff ==
  /\ Len(waited) = sent - 1 \/ sent = 0
  /\ \A i \in 1 .. Len(waits) : waits[i] = baseDelay * Pow2(i - 1)
  /\ \A i \in 1 .. Len(waited) : waited[i] >= baseDelay * Pow2(i - 1)

\* C17 witness: three retries have been sent, after waits of base, 2*base, 4*base
C17_Witness ==
  /\ sent = 4
  /\ waits = <<baseDelay, 2 * baseDelay, 4 * baseDelay>>
  /\ Len(waited) = 3

\* ========================================================= timeout wrappers
\* safeFetch of Solution 1.1 ("solution"), of Template 1 ("template") and of the
\* challenge file ("challenge"); fetchWithTimeout of ajax-complete-guide.js
\* ("guide") and of the cheat sheet ("cheatsheet")
SafeFetchImpls == {"solution", "template", "challenge"}
TimeoutImpls == SafeFetchImpls \cup {"guide", "cheatsheet"}

TimeoutStatuses == {200, 404, 500}

\* the options of the call: an object, as a function on the keys it has
Options == IF hasSignal THEN [k \in {"signal"} |-> "caller"] ELSE [k \in {} |-> ""]

\* { ...options, signal: controller.signal }: the key written last wins
FetchInit(options) ==
  [k \in (DOMAIN options) \cup {"signal"} |->
     IF k = "signal" THEN "controller" ELSE options[k]]

\* the signal that aborts the transport call
FetchSignal == FetchInit(Options)["signal"]

\* the wrappers that test response.ok
ChecksOk == timpl \in SafeFetchImpls

\* the wrappers that call clearTimeout when fetch has answered, before the body
\* is read (Template 1 clears in finally; the others after await fetch)
ClearsOnResponse == timpl # "template"

\* the wrappers that call clearTimeout when the call rejects: in catch (Solution
\* 1.1, challenge) or in finally (Template 1)
ClearsOnError == timpl \in SafeFetchImpls

\* what the call rejects with for a not-ok response: Solution 1.1 and Template 1
\* throw an Error with the status; the challenge's block is the expression
\* statement `HTTP Error ${response.status}: ...`, whose `response` is not
\* declared (the variable is fetchResponse): a ReferenceError
NotOkError(status) ==
  IF timpl = "challenge" THEN Err("ReferenceError", "other", 0)
                         ELSE Err("Error", "HTTP Error", status)

\* what the call rejects with when fetch or the body reading was aborted: the
\* guide rethrows the AbortError, the others throw new Error('Request timeout...')
TimeoutError ==
  IF timpl = "guide" THEN Err("AbortError", "other", 0)
                     ELSE Err("Error", "Request timeout", 0)

ClearTimeout(t) == IF t = "pending" THEN "cleared" ELSE t

InitTimeout ==
  /\ timpl \in TimeoutImpls
  /\ hasSignal \in (IF timpl \in SafeFetchImpls THEN BOOLEAN ELSE {FALSE})
  /\ sigAborted = FALSE
  /\ tst = "idle"
  /\ timer = "none"
  /\ ctlAborted = FALSE
  /\ tstatus = 0
  /\ terr = NoErr
  /\ callerAborted = FALSE
  /\ abortedByCaller = FALSE

TimeoutInFlight == tst \in {"fetching", "reading"}
TimeoutSettled == tst \in {"done", "failed"}

\* the call up to its await fetch(...): new AbortController(), setTimeout
TimeoutCall ==
  /\ tst = "idle"
  /\ tst' = "fetching"
  /\ timer' = "pending"
  /\ UNCHANGED <<timpl, hasSignal, sigAborted, ctlAborted, tstatus, terr,
                 callerAborted, abortedByCaller, nonTimeoutVars>>

\* fetch resolves with a response: clearTimeout, the test of response.ok, up to
\* await response.json() or to the throw and what catch / finally do with it
TimeoutResponse(status) ==
  /\ tst = "fetching"
  /\ tstatus' = status
  /\ IF ChecksOk /\ ~Ok(status)
       THEN /\ tst' = "failed"
            /\ terr' = NotOkError(status)
            /\ timer' = IF ClearsOnResponse \/ ClearsOnError
                          THEN ClearTimeout(timer) ELSE timer
       ELSE /\ tst' = "reading"
            /\ timer' = IF ClearsOnResponse THEN ClearTimeout(timer) ELSE timer
            /\ UNCHANGED terr
  /\ UNCHANGED <<timpl, hasSignal, sigAborted, ctlAborted, callerAborted,
                 abortedByCaller, nonTimeoutVars>>

\* fetch rejects with a TypeError (network error)
TimeoutNetworkError ==
  /\ tst = "fetching"
  /\ tst' = "failed"
  /\ terr' = Err("TypeError", "other", 0)
  /\ timer' = IF ClearsOnError THEN ClearTimeout(timer) ELSE timer
  /\ UNCHANGED <<timpl, hasSignal, sigAborted, ctlAborted, tstatus,
                 callerAborted, abortedByCaller, nonTimeoutVars>>

\* response.json() settles: the parsed body is returned, or the SyntaxError is
\* rethrown
TimeoutBody(readable) ==
  /\ tst = "reading"
  /\ IF readable
       THEN tst' = "done" /\ UNCHANGED terr
       ELSE tst' = "failed" /\ terr' = Err("SyntaxError", "other", 0)
  /\ timer' = IF ClearsOnError THEN ClearTimeout(timer) ELSE timer
  /\ UNCHANGED <<timpl, hasSignal, sigAborted, ctlAborted, tstatus,
                 callerAborted, abortedByCaller, nonTimeoutVars>>

\* the signal given to fetch is aborted while the call is in flight: fetch (or
\* the body reading) rejects with an AbortError and the catch block runs
AbortInFlight ==
  /\ tst' = "failed"
  /\ terr' = TimeoutError
  /\ timer' = IF ClearsOnError THEN ClearTimeout(timer) ELSE timer

\* the timer fires: controller.abort()
TimeoutFires ==
  /\ timer = "pending"
  /\ ctlAborted' = TRUE
  /\ IF TimeoutInFlight
       THEN /\ tst' = "failed"
            /\ terr' = TimeoutError
            /\ timer' = "fired"
       ELSE /\ timer' = "fired"
            /\ UNCHANGED <<tst, terr>>
  /\ UNCHANGED <<timpl, hasSignal, sigAborted, tstatus, callerAborted,
                 abortedByCaller, nonTimeoutVars>>

\* the caller aborts the signal it passed in options, at any time
CallerAbort ==
  /\ hasSignal
  /\ ~sigAborted
  /\ sigAborted' = TRUE
  /\ callerAborted' = TimeoutInFlight
  /\ IF FetchSignal = "caller" /\ TimeoutInFlight
       THEN abortedByCaller' = TRUE /\ AbortInFlight
       ELSE UNCHANGED <<abortedByCaller, tst, terr, timer>>
  /\ UNCHANGED <<timpl, hasSignal, ctlAborted, tstatus, nonTimeoutVars>>

NextTimeout ==
  \/ TimeoutCall
  \/ \E status \in TimeoutStatuses : TimeoutResponse(status)
  \/ TimeoutNetworkError
  \/ \E readable \in BOOLEAN : TimeoutBody(readable)
  \/ TimeoutFires
  \/ CallerAbort

\* ----------------------------------------------------------- timeout claims
\* C18: when the caller aborts the signal it passed to safeFetch while the call
\* is in flight, the abort reaches the transport call, and the call settles with
\* a cancellation error that is not the timeout error: never with a value, an
\* HTTP error or the timeout error.
C18_CallerAbortCancels ==
  callerAborted
  => /\ abortedByCaller
     /\ TimeoutSettled
          => (tst = "failed" /\ terr.name = "AbortError" /\ terr # TimeoutError)

\* C19: safeFetch rejects with an error carrying the status for every response
\* that is not ok, and returns the parsed body for ok responses only.
C19_SafeFetchChecksOk ==
  (timpl \in SafeFetchImpls /\ tstatus # 0)
  => /\ ~Ok(tstatus) => (tst = "failed" /\ terr.status = tstatus)
     /\ tst = "done" => Ok(tstatus)

\* C20: once fetchWithTimeout / safeFetch has settled, its abort timer is not
\* pending any more.
C20_TimerClearedOnEveryExit ==
  TimeoutSettled => timer # "pending"

\* ========================================================== search objects
\* DebouncedSearch (Solution 2.1), SearchManager (Solution 3.4), SearchAutocomplete
\* (INTERVIEW-PREP.md) and the SearchManager of the quick reference ("QuickRef"),
\* which has neither a debounce timer nor clear()
MaxSearch == 3     \* search calls on the object
MaxClock == 4      \* last instant of the clock
SearchDelay == 2   \* this.delay / this.debounceDelay, in instants

SearchImpls == {"DebouncedSearch", "SearchManager", "SearchAutocomplete",
                "QuickRef"}
Searches == 1 .. MaxSearch
NoTimer == 0
NoController == 0

Debounces == simpl # "QuickRef"
HasClear == simpl \in {"DebouncedSearch", "SearchManager"}
TracksLatest == simpl \in {"SearchManager", "QuickRef"}

\* queries are sequences of letters; as the usage of the classes types them, the
\* k-th call searches for k letters, or for the empty query, for which !query
\* holds
Typed(k) == [i \in 1 .. k |-> "a"]
Queries(k) == {<<>>, Typed(k)}
EmptyQuery(q) == q = <<>>

\* How a request ends unless it is aborted: an ok response with a JSON body, a
\* not-ok response with a JSON body, a rejection of fetch (network error)
SearchOutcomes == {"ok", "notok", "network"}

\* st is the position of the call: "debouncing" (its timer is pending), "inflight"
\* (its request is sent), "dropped" (its timer was cleared: nothing is left that
\* settles its promise), "resolved", "rejected"; res is what the promise settled
\* with: "results" (results, or {query, results, timestamp}), "empty" ([]), "null"
\* or "error"; query, searchId, callAt and deadline (of the timer) as in the code;
\* superseded is history: a later search or clear() was called before the call
\* had settled
IdleSearch == [st |-> "idle", query |-> <<>>, searchId |-> 0, res |-> "none",
               callAt |-> 0, deadline |-> 0, superseded |-> FALSE]

InitSearch ==
  /\ simpl \in SearchImpls
  /\ timeoutId = NoTimer
  /\ abortController = NoController
  /\ latestSearchId = 0
  /\ searches = [k \in Searches |-> IdleSearch]
  /\ requests = <<>>
  /\ sclock = 0
  /\ burst = TRUE

SearchSettled(k) == searches[k].st \in {"resolved", "rejected"}
SearchMade(k) == searches[k].st # "idle"
\* the last search call made (0: none)
LastSearch ==
  IF \E k \in Searches : SearchMade(k)
    THEN CHOOSE k \in Searches :
           SearchMade(k) /\ \A j \in Searches : SearchMade(j) => j <= k
    ELSE 0

\* history: a search or clear() is called; the calls not yet settled are superseded
Supersede(ss) ==
  [k \in Searches |->
     IF ss[k].st \in {"debouncing", "inflight", "dropped"}
       THEN [ss[k] EXCEPT !.superseded = TRUE]
       ELSE ss[k]]

\* (mutant) the pending timer is left alone
KeepTimer(ss, id) == ss

\* clearTimeout(this.timeoutId): a pending timer never fires
ClearTimer(ss, id) ==
  IF id # NoTimer /\ ss[id].st = "debouncing"
    THEN [ss EXCEPT ![id].st = "dropped"]
    ELSE ss

\* what a call resolves with when its fetch rejects with an AbortError
AbortResult == IF TracksLatest THEN "null" ELSE "empty"

\* (mutant) the request in flight is left alone
AbortIgnored(ss, id) == ss

\* this.abortController.abort(): a request in flight rejects with an AbortError,
\* which the catch block of its call turns into AbortResult
AbortRequest(ss, id) ==
  IF id # NoController /\ ss[id].st = "inflight"
    THEN [ss EXCEPT ![id] = [@ EXCEPT !.st = "resolved", !.res = AbortResult]]
    ELSE ss

\* the request of call k is sent
SendRequest(k) ==
  requests' = Append(requests, [by |-> k, q |-> searches'[k].query, at |-> sclock])

\* search(query) up to its return
Search(k, q) ==
  LET before == Supersede(searches)
      cleared == IF Debounces THEN ClearTimer(before, timeoutId) ELSE before
      aborted == AbortRequest(cleared, abortController)
      made == [aborted EXCEPT ![k] = [@ EXCEPT !.query = q, !.callAt = sclock]]
  IN
  /\ searches[k].st = "idle"
  /\ \A j \in Searches : j < k => SearchMade(j)
  /\ burst' = (burst /\ (LastSearch = 0
                         \/ sclock - searches[LastSearch].callAt < SearchDelay))
  /\ IF HasClear /\ EmptyQuery(q)
       THEN \* this.clear(); return Promise.resolve([]) / return null
            /\ timeoutId' = NoTimer
            /\ abortController' = NoController
            /\ latestSearchId' = IF TracksLatest THEN 0 ELSE latestSearchId
            /\ searches' = [made EXCEPT ![k] =
                              [@ EXCEPT !.st = "resolved", !.res = AbortResult]]
            /\ UNCHANGED requests
     ELSE IF Debounces
       THEN \* this.timeoutId = setTimeout(..., this.delay)
            /\ timeoutId' = k
            /\ latestSearchId' = IF TracksLatest THEN latestSearchId + 1
                                                 ELSE latestSearchId
            /\ searches' = [made EXCEPT ![k] =
                              [@ EXCEPT !.st = "debouncing",
                                        !.searchId = latestSearchId',
                                        !.deadline = sclock + SearchDelay]]
            /\ UNCHANGED <<abortController, requests>>
       ELSE \* quick reference: the request is sent at once
            /\ latestSearchId' = latestSearchId + 1
            /\ abortController' = k
            /\ searches' = [made EXCEPT ![k] =
                              [@ EXCEPT !.st = "inflight",
                                        !.searchId = latestSearchId']]
            /\ SendRequest(k)
            /\ UNCHANGED timeoutId
  /\ UNCHANGED <<simpl, sclock, nonSearchVars>>

\* the timer of call k fires, not before its delay has elapsed: a controller is
\* made and the request is sent
SearchTimer(k) ==
  /\ searches[k].st = "debouncing"
  /\ sclock >= searches[k].deadline
  /\ abortController' = k
  /\ searches' = [searches EXCEPT ![k].st = "inflight"]
  /\ SendRequest(k)
  /\ UNCHANGED <<simpl, timeoutId, latestSearchId, sclock, burst, nonSearchVars>>

\* searchId === this.latestSearchId
IsLatest(k) == searches[k].searchId = latestSearchId

\* what the call settles with when its request ends with outcome o
SearchResult(k, o) ==
  CASE simpl = "DebouncedSearch" ->
         IF o = "ok" THEN [st |-> "resolved", res |-> "results"]
                     ELSE [st |-> "rejected", res |-> "error"]
    [] simpl = "SearchManager" ->
         IF o = "ok" /\ IsLatest(k) THEN [st |-> "resolved", res |-> "results"]
                                    ELSE [st |-> "resolved", res |-> "null"]
    [] simpl = "SearchAutocomplete" ->
         \* no test of response.ok; every error resolves []
         IF o = "network" THEN [st |-> "resolved", res |-> "empty"]
                          ELSE [st |-> "resolved", res |-> "results"]
    [] OTHER ->
         \* quick reference: no test of response.ok; errors are rethrown
         IF o = "network" THEN [st |-> "rejected", res |-> "error"]
         ELSE IF IsLatest(k) THEN [st |-> "resolved", res |-> "results"]
         ELSE [st |-> "resolved", res |-> "null"]

\* the request of call k ends (the response and the reading of its body are one
\* step: the first changes nothing that another call can see)
SearchResponse(k, o) ==
  /\ searches[k].st = "inflight"
  /\ searches' = [searches EXCEPT ![k] =
                    [@ EXCEPT !.st = SearchResult(k, o).st,
                              !.res = SearchResult(k, o).res]]
  /\ UNCHANGED <<simpl, timeoutId, abortController, latestSearchId, requests,
                 sclock, burst, nonSearchVars>>

\* clear()
SearchClear ==
  /\ HasClear
  /\ searches' = AbortRequest(ClearTimer(Supersede(searches), timeoutId),
                              abortController)
  /\ timeoutId' = NoTimer
  /\ abortController' = NoController
  /\ latestSearchId' = IF TracksLatest THEN 0 ELSE latestSearchId
  /\ burst' = FALSE
  /\ UNCHANGED <<simpl, requests, sclock, nonSearchVars>>

\* time passes
SearchTick ==
  /\ sclock < MaxClock
  /\ sclock' = sclock + 1
  /\ UNCHANGED <<simpl, timeoutId, abortController, latestSearchId, searches,
                 requests, burst, nonSearchVars>>

NextSearch ==
  \/ \E k \in Searches : \E q \in Queries(k) : Search(k, q)
  \/ \E k \in Searches : SearchTimer(k)
  \/ \E k \in Searches, o \in SearchOutcomes : SearchResponse(k, o)
  \/ SearchClear
  \/ SearchTick

C32_EverySearchSettles ==
  \A k \in Searches :
    [](searches[k].st = "debouncing" /\ searches[k].deadline <= MaxClock
         => <>SearchSettled(k))

\* ========================================================= paginated feeds
\* PaginatedFeed (Solution 3.3), InfiniteScrollFeed (INTERVIEW-PREP.md) and
\* InfiniteScroll (quick reference)
MaxLoads == 3      \* loadNext / loadMore calls on the feed

FeedImpls == {"PaginatedFeed", "InfiniteScrollFeed", "InfiniteScroll"}
Loads == 1 .. MaxLoads

\* How a page request ends: a full page ("full"), fewer items than pageSize
\* ("short"), an empty array ("empty"), or a failure ("fail": fetch rejects, the
\* response is not ok, or its body is not an array of items)
LoadOutcomes == {"full", "short", "empty", "fail"}

\* st is the position of the call: "noop" (it returned at the guard),
\* "inflight", "done", "failed"; pageReq is the page it requested; the rest is
\* history: blocked (a load was in flight or hasMore was false when it was
\* called), pageBefore and itemsBefore (the page counter and the items when it
\* was called) and rolledBack (when it failed, they were the same again)
IdleLoad == [st |-> "idle", pageReq |-> 0, blocked |-> FALSE, pageBefore |-> 0,
             itemsBefore |-> <<>>, rolledBack |-> FALSE]

InitFeed ==
  /\ fimpl \in FeedImpls
  /\ page = 0
  /\ items = <<>>
  /\ isLoading = FALSE
  /\ hasMore = TRUE
  /\ loads = [k \in Loads |-> IdleLoad]
  /\ requested = <<>>
  /\ resetUsed = FALSE
  /\ pristine = FALSE

\* if (this._isLoading || !this._hasMore) return
LoadBlocked == isLoading \/ ~hasMore

\* the classes that count the page up before the request is sent: this.page++
CountsUpFirst == fimpl # "PaginatedFeed"

\* loadNext() / loadMore() up to its return or its await fetch(...)
LoadNext(k) ==
  LET c0 == [loads[k] EXCEPT !.blocked = isLoading \/ ~hasMore,
                             !.pageBefore = page, !.itemsBefore = items]
  IN
  /\ loads[k].st = "idle"
  /\ \A j \in Loads : j < k => loads[j].st # "idle"
  /\ pristine' = FALSE
  /\ IF LoadBlocked
       THEN /\ loads' = [loads EXCEPT ![k] = [c0 EXCEPT !.st = "noop"]]
            /\ UNCHANGED <<page, isLoading, requested>>
       ELSE /\ isLoading' = TRUE
            /\ page' = IF CountsUpFirst THEN page + 1 ELSE page
            /\ loads' = [loads EXCEPT ![k] =
                           [c0 EXCEPT !.st = "inflight", !.pageReq = page + 1]]
            /\ requested' = Append(requested, page + 1)
  /\ UNCHANGED <<fimpl, items, hasMore, resetUsed, nonFeedVars>>

\* the page counter after a load that failed: PaginatedFeed has not changed it,
\* InfiniteScrollFeed counts it down again in catch (this.page--),
\* InfiniteScroll has no catch
PageAfterFailure == IF fimpl = "InfiniteScrollFeed" THEN page - 1 ELSE page

\* the request of call k ends: the rest of loadNext / loadMore, with its finally
LoadResponse(k, o) ==
  /\ loads[k].st = "inflight"
  /\ isLoading' = FALSE
  /\ CASE o = "fail" ->
            /\ page' = PageAfterFailure
            /\ loads' = [loads EXCEPT ![k] =
                           [@ EXCEPT !.st = "failed",
                                     !.rolledBack =
                                        /\ PageAfterFailure = loads[k].pageBefore
                                        /\ items = loads[k].itemsBefore]]
            /\ UNCHANGED <<items, hasMore>>
       [] o = "empty" ->
            /\ hasMore' = FALSE
            /\ loads' = [loads EXCEPT ![k].st = "done"]
            /\ UNCHANGED <<items, page>>
       [] OTHER ->
            \* only PaginatedFeed compares data.length with this.pageSize
            /\ hasMore' = IF fimpl = "PaginatedFeed" /\ o = "short"
                            THEN FALSE ELSE hasMore
            /\ items' = Append(items, loads[k].pageReq)
            /\ page' = IF CountsUpFirst THEN page ELSE loads[k].pageReq
            /\ loads' = [loads EXCEPT ![k].st = "done"]
  /\ UNCHANGED <<fimpl, requested, resetUsed, pristine, nonFeedVars>>

\* PaginatedFeed.reset()
FeedReset ==
  /\ fimpl = "PaginatedFeed"
  /\ page' = 0
  /\ items' = <<>>
  /\ isLoading' = FALSE
  /\ hasMore' = TRUE
  /\ resetUsed' = TRUE
  /\ pristine' = TRUE
  /\ UNCHANGED <<fimpl, loads, requested, nonFeedVars>>

NextFeed ==
  \/ \E k \in Loads : LoadNext(k)
  \/ \E k \in Loads, o \in LoadOutcomes : LoadResponse(k, o)
  \/ FeedReset

\* -------------------------------------------------------------- feed claims
\* C23: under any interleaving of loadNext calls (reset is not called) at most
\* one page request is in flight, the pages appended to items are 1, 2, 3, ...
\* in this order, each once, the pages are requested in rising order from page 1
\* (a page is requested again only after its load failed), and a loadNext call
\* made while a load is in flight or hasMore is false does nothing.
C23_OneLoadAtATime ==
  ~resetUsed
  => /\ Cardinality({k \in Loads : loads[k].st = "inflight"}) <= 1
     /\ \A i \in 1 .. Len(items) : items[i] = i
     /\ \A i \in 1 .. Len(requested) :
          IF i = 1 THEN requested[i] = 1
                   ELSE requested[i] \in {requested[i - 1], requested[i - 1] + 1}
     /\ \A k \in Loads : loads[k].blocked => loads[k].st = "noop"

\* C24: when a page load fails, the page counter and the items are the same as
\* before the call (reset is not called).
C24_FailedLoadRolledBack ==
  \A k \in Loads : (~resetUsed /\ loads[k].st = "failed") => loads[k].rolledBack

\* C25: from reset() to the next loadNext call, currentPage is 0, items is empty,
\* isLoading is false and hasMore is true, also when a load was in flight at the
\* moment of the reset.
C25_ResetHolds ==
  pristine => (page = 0 /\ items = <<>> /\ ~isLoading /\ hasMore)

\* ========================================================== request batcher
\* RequestBatcher of ajax-complete-guide.js ("guide": add, flush) and of
\* Solution 2.4 ("solution": fetch, _processBatch)
MaxAdds == 3         \* requests handed to the batcher
MaxBatchClock == 5   \* the time stops here
BatchDelay == 2      \* this.batchDelay / this.delay, in clock units

BatcherImpls == {"guide", "solution"}
Adds == 1 .. MaxAdds

\* How a batch request ends: a response with one entry for each request ("ok"),
\* an error status with a JSON error body ("notok"), or fetch rejects or the
\* body is unreadable ("network")
BatchOutcomes == {"ok", "notok", "network"}

\* st is the position of the call: "idle", "queued", "sent", "resolved",
\* "rejected"; val is what its promise settled with; the rest is history:
\* addedAt and sentAt are the times of the call and of the dispatch, batch and
\* pos are the batch that carried the request and its place there
IdleAdd == [st |-> "idle", val |-> <<>>, addedAt |-> 0, sentAt |-> 0,
            batch |-> 0, pos |-> 0]

InitBatcher ==
  /\ bimpl \in BatcherImpls
  /\ queue = <<>>
  /\ btimer = NoTimer
  /\ bclock = 0
  /\ breqs = [k \in Adds |-> IdleAdd]
  /\ batches = <<>>

\* (mutant) an add that finds a timer pending clears it and sets none
TimerLost ==
  IF btimer # NoTimer THEN NoTimer ELSE bclock + BatchDelay + 1

\* add: if (!this.timer) this.timer = setTimeout(...);
\* fetch: clearTimeout(this.timeoutId); this.timeoutId = setTimeout(...)
TimerAfterAdd ==
  IF bimpl = "guide" /\ btimer # NoTimer THEN btimer ELSE bclock + BatchDelay + 1

\* The due time of a timer is kept one higher than the time, so that NoTimer
\* (0) is no due time
TimerDue == btimer # NoTimer /\ btimer = bclock + 1

\* add(request) / fetch(url, options)
BatchAdd(k) ==
  /\ breqs[k].st = "idle"
  /\ \A j \in Adds : j < k => breqs[j].st # "idle"
  /\ ~TimerDue
  /\ queue' = Append(queue, k)
  /\ btimer' = TimerAfterAdd
  /\ breqs' = [breqs EXCEPT ![k] = [@ EXCEPT !.st = "queued", !.addedAt = bclock]]
  /\ UNCHANGED <<bimpl, bclock, batches, nonBatcherVars>>

\* the timer fires: flush() / _processBatch() up to its await fetch(...)
BatchFlush ==
  /\ TimerDue
  /\ queue' = <<>>
  /\ btimer' = NoTimer
  /\ IF queue = <<>>
       THEN UNCHANGED <<breqs, batches>>
       ELSE /\ batches' = Append(batches, [reqs |-> queue, st |-> "inflight"])
            /\ breqs' = [k \in Adds |->
                 IF \E i \in 1 .. Len(queue) : queue[i] = k
                   THEN [breqs[k] EXCEPT
                           !.st = "sent", !.sentAt = bclock,
                           !.batch = Len(batches) + 1,
                           !.pos = CHOOSE i \in 1 .. Len(queue) : queue[i] = k]
                   ELSE breqs[k]]
  /\ UNCHANGED <<bimpl, bclock, nonBatcherVars>>

\* What the promise of the request at place i of batch b settles with when the
\* batch request ends with o; errs are the places whose entry reports an error.
\*   guide:    item.resolve(results[index]), with no check of response.ok
\*   solution: result.error ? item.reject(new Error(result.error))
\*                          : item.resolve(result.data)
Settle(b, i, o, errs) ==
  CASE o = "network" -> [st |-> "rejected", val |-> <<"failure", b>>]
    [] o = "notok" ->
         IF bimpl = "guide"
           THEN [st |-> "resolved", val |-> <<"undefined">>]
           ELSE [st |-> "rejected", val |-> <<"failure", b>>]
    [] OTHER ->
         IF bimpl = "solution" /\ i \in errs
           THEN [st |-> "rejected", val |-> <<"entry", b, i>>]
           ELSE [st |-> "resolved", val |-> <<"entry", b, i>>]

\* the batch request b ends: the rest of flush() / _processBatch()
BatchResponse(b, o, errs) ==
  /\ b \in 1 .. Len(batches)
  /\ batches[b].st = "inflight"
  /\ errs \subseteq 1 .. Len(batches[b].reqs)
  /\ o # "ok" => errs = {}
  /\ batches' = [batches EXCEPT ![b].st = o]
  /\ breqs' = [k \in Adds |->
       IF breqs[k].batch = b
         THEN [breqs[k] EXCEPT !.st = Settle(b, breqs[k].pos, o, errs).st,
                               !.val = Settle(b, breqs[k].pos, o, errs).val]
         ELSE breqs[k]]
  /\ UNCHANGED <<bimpl, queue, btimer, bclock, nonBatcherVars>>

\* time passes, but not past a timer that is due
BatchTick ==
  /\ bclock < MaxBatchClock
  /\ ~TimerDue
  /\ bclock' = bclock + 1
  /\ UNCHANGED <<bimpl, queue, btimer, breqs, batches, nonBatcherVars>>

NextBatcher ==
  \/ \E k \in Adds : BatchAdd(k)
  \/ BatchFlush
  \/ \E b \in Adds : \E o \in BatchOutcomes : \E errs \in SUBSET Adds :
       BatchResponse(b, o, errs)
  \/ BatchTick

\* ----------------------------------------------------------- batcher claims
\* C26: the promise of the i-th request of a batch is settled with the i-th
\* entry of the response of that batch, and when the batch request fails every
\* promise of the batch is rejected with that failure.
C26_EachCallerGetsItsEntry ==
  \A k \in Adds :
    breqs[k].st \in {"resolved", "rejected"}
    => IF batches[breqs[k].batch].st = "ok"
         THEN breqs[k].val = <<"entry", breqs[k].batch, breqs[k].pos>>
         ELSE /\ breqs[k].st = "rejected"
              /\ breqs[k].val = <<"failure", breqs[k].batch>>

\* C27: a request is dispatched no later than the delay after it was added,
\* whatever else is added in the meantime.
C27_DispatchedWithinDelay ==
  \A k \in Adds :
    /\ breqs[k].st = "queued" => bclock <= breqs[k].addedAt + BatchDelay
    /\ breqs[k].st \in {"sent", "resolved", "rejected"}
         => breqs[k].sentAt <= breqs[k].addedAt + BatchDelay


\* C36: every request handed to the batcher is in exactly one place: waiting in
\* the queue, with the timer pending that will send it, or in one batch request,
\* once; also a request added while an earlier batch awaits its response.
C36_EachRequestInOneBatch ==
  \A k \in Adds :
    LET inQueue == {i \in 1 .. Len(queue) : queue[i] = k}
        inBatch == {p \in (1 .. Len(batches)) \X Adds :
                      /\ p[2] <= Len(batches[p[1]].reqs)
                      /\ batches[p[1]].reqs[p[2]] = k}
    IN
    breqs[k].st # "idle"
    => /\ Cardinality(inQueue) + Cardinality(inBatch) = 1
       /\ inQueue # {} => btimer # NoTimer
       /\ breqs[k].st = "queued" <=> inQueue # {}

\* C36 witness: a request added while the first batch awaited its response has
\* been sent in the second batch
C36_Witness ==
  /\ Len(batches) = 2
  /\ batches[1].st = "inflight"
  /\ \E j, k \in Adds :
       /\ breqs[j].batch = 1
       /\ breqs[k].batch = 2
       /\ breqs[k].addedAt >= breqs[j].sentAt

\* ============================================================= long polling
\* LongPolling (ajax-complete-guide.js, Example 6)
MaxStarts == 2    \* start() calls
MaxPolls == 4     \* poll requests issued by all loops together

Starts == 1 .. MaxStarts

\* How a poll request ends: response.ok with a readable body ("ok"), a response
\* that is not ok ("notok"), or fetch or response.json() rejects ("error")
PollOutcomes == {"ok", "notok", "error"}

\* The position of the loop of a start() call: "idle" (not called), "polling"
\* (its request is in flight), "waiting" (in the 5 s pause of catch), "ended"
NotStopped == [on |-> FALSE, polls |-> 0, delivered |-> 0]

InitPolling ==
  /\ isPolling = FALSE
  /\ loops = [k \in Starts |-> "idle"]
  /\ polls = 0
  /\ delivered = 0
  /\ stopMark = NotStopped

\* while (this.isPolling) { await fetch(...) ... }: the loop of call k comes to
\* its test with this.isPolling = p
LoopTest(k, p) ==
  IF p
    THEN /\ polls < MaxPolls
         /\ loops' = [loops EXCEPT ![k] = "polling"]
         /\ polls' = polls + 1
    ELSE /\ loops' = [loops EXCEPT ![k] = "ended"]
         /\ UNCHANGED polls

\* start(callback) up to its first await fetch(...)
PollStart(k) ==
  /\ loops[k] = "idle"
  /\ \A j \in Starts : j < k => loops[j] # "idle"
  /\ isPolling' = TRUE
  /\ LoopTest(k, TRUE)
  /\ stopMark' = NotStopped
  /\ UNCHANGED <<delivered, nonPollVars>>

\* the request of loop k ends: the rest of the loop body and the next test
PollResponse(k, o) ==
  /\ loops[k] = "polling"
  /\ CASE o = "ok" ->
            /\ delivered' = delivered + 1
            /\ LoopTest(k, isPolling)
       [] o = "notok" ->
            /\ LoopTest(k, isPolling)
            /\ UNCHANGED delivered
       [] OTHER ->
            /\ loops' = [loops EXCEPT ![k] = "waiting"]
            /\ UNCHANGED <<polls, delivered>>
  /\ UNCHANGED <<isPolling, stopMark, nonPollVars>>

\* the 5 s pause of catch is over: the next test of the loop
PollRetry(k) ==
  /\ loops[k] = "waiting"
  /\ LoopTest(k, isPolling)
  /\ UNCHANGED <<isPolling, delivered, stopMark, nonPollVars>>

\* stop()
PollStop ==
  /\ isPolling' = FALSE
  /\ stopMark' = [on |-> TRUE, polls |-> polls, delivered |-> delivered]
  /\ UNCHANGED <<loops, polls, delivered, nonPollVars>>

NextPolling ==
  \/ \E k \in Starts : PollStart(k)
  \/ \E k \in Starts, o \in PollOutcomes : PollResponse(k, o)
  \/ \E k \in Starts : PollRetry(k)
  \/ PollStop

\* ------------------------------------------------------ long polling claims
\* C28: under any sequence of start() and stop() calls at most one poll request
\* of the instance is in flight.
C28_OnePollInFlight ==
  Cardinality({k \in Starts : loops[k] = "polling"}) <= 1

\* C35: after stop(), as long as start() is not called again, the data callback
\* is not invoked and no poll request is issued.
C35_QuietAfterStop ==
  stopMark.on => (delivered = stopMark.delivered /\ polls = stopMark.polls)

\* ============================================================= myPromiseAll
\* myPromiseAll (INTERVIEW-PREP.md, Challenge 1)
MaxInputs == 4    \* promises.length

Inputs == 1 .. MaxInputs

\* The value input i fulfils with and the reason it rejects with
Val(i) == <<"value", i>>
Reason(i) == <<"reason", i>>
Hole == <<>>      \* an index of results nothing was assigned to

Pending == [st |-> "pending", val |-> <<>>]

\* before myPromiseAll(promises) is called, with promises of any length
InitAll ==
  /\ inputs \in 0 .. MaxInputs
  /\ pst = [i \in Inputs |-> "pending"]
  /\ results = [i \in Inputs |-> Hole]
  /\ completed = 0
  /\ allSt = [st |-> "none", val |-> <<>>]
  /\ order = <<>>

\* the array the promise resolves with
ResultArray(r) == [i \in 1 .. inputs |-> r[i]]

\* myPromiseAll(promises): the executor
AllCall ==
  /\ allSt.st = "none"
  /\ allSt' = IF inputs = 0 THEN [st |-> "resolved", val |-> <<>>] ELSE Pending
  /\ UNCHANGED <<inputs, pst, results, completed, order, nonAllVars>>

\* (mutant) results.push(result)
StorePush(r, index, v) == [r EXCEPT ![completed + 1] = v]

\* results[index] = result
Store(r, index, v) == [r EXCEPT ![index] = v]

\* input i fulfils: the .then callback
AllFulfil(i) ==
  /\ allSt.st # "none"
  /\ i <= inputs
  /\ pst[i] = "pending"
  /\ pst' = [pst EXCEPT ![i] = "fulfilled"]
  /\ results' = Store(results, i, Val(i))
  /\ completed' = completed + 1
  /\ order' = Append(order, i)
  /\ allSt' = IF completed' = inputs /\ allSt.st = "pending"
                THEN [st |-> "resolved", val |-> ResultArray(results')]
                ELSE allSt
  /\ UNCHANGED <<inputs, nonAllVars>>

\* input i rejects: .catch(reject); reject settles a pending promise only
AllReject(i) ==
  /\ allSt.st # "none"
  /\ i <= inputs
  /\ pst[i] = "pending"
  /\ pst' = [pst EXCEPT ![i] = "rejected"]
  /\ order' = Append(order, i)
  /\ allSt' = IF allSt.st = "pending"
                THEN [st |-> "rejected", val |-> Reason(i)]
                ELSE allSt
  /\ UNCHANGED <<inputs, results, completed, nonAllVars>>

NextAll ==
  \/ AllCall
  \/ \E i \in Inputs : AllFulfil(i)
  \/ \E i \in Inputs : AllReject(i)

\* ------------------------------------------------------ myPromiseAll claims
\* the inputs that have rejected, and the first of them
Rejected == {i \in 1 .. inputs : pst[i] = "rejected"}
FirstRejected ==
  order[CHOOSE n \in 1 .. Len(order) :
          /\ order[n] \in Rejected
          /\ \A j \in 1 .. n - 1 : order[j] \notin Rejected]

\* C29: myPromiseAll resolves only when every input has fulfilled, and then with
\* the array whose i-th element is the value of the i-th input, whatever order
\* the inputs settled in; once an input has rejected it is rejected with the
\* reason of the first rejection, and it is never resolved.
C29_PromiseAll ==
  /\ allSt.st = "resolved"
       => /\ \A i \in 1 .. inputs : pst[i] = "fulfilled"
          /\ allSt.val = [i \in 1 .. inputs |-> Val(i)]
  /\ (allSt.st # "none" /\ \A i \in 1 .. inputs : pst[i] = "fulfilled")
       => allSt.st = "resolved"
  /\ Rejected # {}
       => allSt = [st |-> "rejected", val |-> Reason(FirstRejected)]

\* C29 witness: all inputs have fulfilled, the last one first, and the promise
\* is resolved
C29_Witness ==
  /\ inputs = MaxInputs
  /\ allSt.st = "resolved"
  /\ order[1] = MaxInputs

\* =============================================================== uploadFile
\* uploadFile (Solution 3.2)
MaxChunks == 3    \* event.total of the upload, in chunks

UploadStatuses == {200, 404, 500}

NoUpload == [st |-> "none", val |-> ""]
UploadRejected(msg) == [st |-> "rejected", val |-> msg]

\* before uploadFile(file, url, { onProgress, signal }) is called; the signal may
\* be absent, live or aborted already
InitUpload ==
  /\ usignal \in {"none", "live", "aborted"}
  /\ onProgress \in BOOLEAN
  /\ xhr = "unsent"
  /\ loaded = 0
  /\ reported = -1
  /\ upload = NoUpload
  /\ cancelled = FALSE

\* reject settles a pending promise only
RejectUpload(msg) == IF upload.st = "pending" THEN UploadRejected(msg) ELSE upload

\* uploadFile(...): the executor. signal.addEventListener('abort', ...) on a
\* signal that is aborted already registers a listener that is never called.
UploadCall ==
  /\ upload.st = "none"
  /\ upload' = [st |-> "pending", val |-> ""]
  /\ xhr' = "sending"
  /\ cancelled' = (usignal = "aborted")
  /\ UNCHANGED <<usignal, onProgress, loaded, reported, nonUploadVars>>

\* Math.round((event.loaded / event.total) * 100)
Percentage(l, total) == (200 * l + total) \div (2 * total)

\* xhr.upload 'progress'
UploadProgress(lengthComputable) ==
  /\ xhr = "sending"
  /\ loaded < MaxChunks
  /\ loaded' = loaded + 1
  /\ reported' = IF lengthComputable /\ onProgress
                   THEN Percentage(loaded', MaxChunks) ELSE reported
  /\ UNCHANGED <<usignal, onProgress, xhr, upload, cancelled, nonUploadVars>>

\* xhr 'load'
UploadLoad(status, json) ==
  /\ xhr = "sending"
  /\ xhr' = "done"
  /\ upload' = IF status >= 200 /\ status < 300
                 THEN IF upload.st = "pending"
                        THEN [st |-> "resolved",
                              val |-> IF json THEN "response" ELSE "responseText"]
                        ELSE upload
                 ELSE RejectUpload("Upload failed")
  /\ UNCHANGED <<usignal, onProgress, loaded, reported, cancelled, nonUploadVars>>

\* xhr 'error'
UploadError ==
  /\ xhr = "sending"
  /\ xhr' = "error"
  /\ upload' = RejectUpload("Network error during upload")
  /\ UNCHANGED <<usignal, onProgress, loaded, reported, cancelled, nonUploadVars>>

\* controller.abort() by the caller: before the call nothing listens; after it
\* the listener runs xhr.abort() and reject(new Error('Upload cancelled'))
UploadAbort ==
  /\ usignal = "live"
  /\ usignal' = "aborted"
  /\ IF upload.st = "none"
       THEN UNCHANGED <<xhr, upload, cancelled>>
       ELSE /\ xhr' = IF xhr = "sending" THEN "aborted" ELSE xhr
            /\ upload' = RejectUpload("Upload cancelled")
            /\ cancelled' = (cancelled \/ xhr = "sending")
  /\ UNCHANGED <<onProgress, loaded, reported, nonUploadVars>>

NextUpload ==
  \/ UploadCall
  \/ \E c \in BOOLEAN : UploadProgress(c)
  \/ \E s \in UploadStatuses, j \in BOOLEAN : UploadLoad(s, j)
  \/ UploadError
  \/ UploadAbort

\* -------------------------------------------------------- uploadFile claims
\* C30: when the signal is aborted before the upload has completed, also when it
\* is aborted already at the call, the XHR is aborted and the promise is
\* rejected with 'Upload cancelled'.
C30_AbortCancelsUpload ==
  cancelled => (xhr = "aborted" /\ upload = UploadRejected("Upload cancelled"))

\* ============================================================== AuthService
\* AuthService (ajax-complete-guide.js, Example 1)
MaxSvcLogins == 2   \* login calls
MaxSvcCalls == 3    \* fetchProtected calls

SvcLogins == 1 .. MaxSvcLogins
SvcCalls == 1 .. MaxSvcCalls

\* How a login request ends: a response that is ok and carries a token ("ok"),
\* a response that is not ok ("notok"), or fetch or response.json() rejects
SvcLoginOutcomes == {"ok", "notok", "network"}

\* How the request of fetchProtected ends: a status, or 0 when fetch rejects
SvcStatuses == {0, 200, 401, 500}

\* st is the position of the call: "idle", "inflight", "done", "failed"; err is
\* the message it threw; the rest is history: sent (it made a transport call),
\* status (what the transport answered), noToken (this.token was null when it
\* was called), afterExpiry (it was called after a 401 with no login succeeded
\* since) and cleared (its 401 left token and store both empty)
IdleSvcCall == [st |-> "idle", err |-> "", sent |-> FALSE, status |-> 0,
                noToken |-> FALSE, afterExpiry |-> FALSE, cleared |-> FALSE]

\* new AuthService(): this.token = localStorage.getItem('token')
InitSvc ==
  /\ svcStored \in {Null, StoredBefore}
  /\ svcToken = svcStored
  /\ svcLogins = [k \in SvcLogins |-> "idle"]
  /\ svcCalls = [k \in SvcCalls |-> IdleSvcCall]
  /\ expired = FALSE

\* login(email, password) up to its await fetch(...)
SvcLoginCall(k) ==
  /\ svcLogins[k] = "idle"
  /\ \A j \in SvcLogins : j < k => svcLogins[j] # "idle"
  /\ svcLogins' = [svcLogins EXCEPT ![k] = "inflight"]
  /\ UNCHANGED <<svcToken, svcStored, svcCalls, expired, nonSvcVars>>

\* the login request ends: the rest of login
SvcLoginResponse(k, o) ==
  /\ svcLogins[k] = "inflight"
  /\ IF o = "ok"
       THEN /\ svcToken' = Tok("login", k)
            /\ svcStored' = Tok("login", k)
            /\ svcLogins' = [svcLogins EXCEPT ![k] = "done"]
            /\ expired' = FALSE
       ELSE /\ svcLogins' = [svcLogins EXCEPT ![k] = "failed"]
            /\ UNCHANGED <<svcToken, svcStored, expired>>
  /\ UNCHANGED <<svcCalls, nonSvcVars>>

\* logout(): no await in its body
SvcLogout ==
  /\ svcToken' = Null
  /\ svcStored' = Null
  /\ UNCHANGED <<svcLogins, svcCalls, expired, nonSvcVars>>

\* fetchProtected(endpoint) up to its throw or its await fetch(...)
FetchProtected(k) ==
  LET c0 == [svcCalls[k] EXCEPT !.noToken = (svcToken = Null),
                                !.afterExpiry = expired]
  IN
  /\ svcCalls[k].st = "idle"
  /\ \A j \in SvcCalls : j < k => svcCalls[j].st # "idle"
  /\ svcCalls' = [svcCalls EXCEPT ![k] =
       IF svcToken = Null
         THEN [c0 EXCEPT !.st = "failed", !.err = "Not authenticated"]
         ELSE [c0 EXCEPT !.st = "inflight", !.sent = TRUE]]
  /\ UNCHANGED <<svcToken, svcStored, svcLogins, expired, nonSvcVars>>

\* (mutant) the 401 branch does not call this.logout()
TokenKept(t) == t

\* if (response.status === 401) { this.logout(); ... }: what is left of a token
TokenAfter401(t) == Null

\* the request of call k ends: the rest of fetchProtected
FetchProtectedResponse(k, status) ==
  /\ svcCalls[k].st = "inflight"
  /\ CASE status = 401 ->
            /\ svcToken' = TokenAfter401(svcToken)
            /\ svcStored' = TokenAfter401(svcStored)
            /\ expired' = TRUE
            /\ svcCalls' = [svcCalls EXCEPT ![k] =
                 [@ EXCEPT !.st = "failed", !.err = "Session expired",
                           !.status = status,
                           !.cleared = (svcToken' = Null /\ svcStored' = Null)]]
       [] status = 0 ->
            /\ svcCalls' = [svcCalls EXCEPT ![k] =
                 [@ EXCEPT !.st = "failed", !.err = "network", !.status = status]]
            /\ UNCHANGED <<svcToken, svcStored, expired>>
       [] OTHER ->
            \* return await response.json(), whatever response.ok is
            /\ svcCalls' = [svcCalls EXCEPT ![k] =
                 [@ EXCEPT !.st = "done", !.status = status]]
            /\ UNCHANGED <<svcToken, svcStored, expired>>
  /\ UNCHANGED <<svcLogins, nonSvcVars>>

NextSvc ==
  \/ \E k \in SvcLogins : SvcLoginCall(k)
  \/ \E k \in SvcLogins, o \in SvcLoginOutcomes : SvcLoginResponse(k, o)
  \/ SvcLogout
  \/ \E k \in SvcCalls : FetchProtected(k)
  \/ \E k \in SvcCalls, s \in SvcStatuses : FetchProtectedResponse(k, s)

\* ------------------------------------------------------ AuthService claims
\* C31: fetchProtected called with no token makes no transport call and throws
\* 'Not authenticated'; a 401 response clears the token and the stored
\* credential and throws 'Session expired'; from then until a login succeeds
\* every fetchProtected call fails without a transport call.
C31_FetchProtected ==
  /\ \A k \in SvcCalls :
       /\ svcCalls[k].noToken
            => /\ svcCalls[k].st = "failed"
               /\ svcCalls[k].err = "Not authenticated"
               /\ ~svcCalls[k].sent
       /\ svcCalls[k].status = 401
            => /\ svcCalls[k].st = "failed"
               /\ svcCalls[k].err = "Session expired"
               /\ svcCalls[k].cleared
       /\ svcCalls[k].afterExpiry
            => /\ svcCalls[k].st = "failed"
               /\ ~svcCalls[k].sent
  /\ expired => (svcToken = Null /\ svcStored = Null)

\* C31 witness: a call was answered 401 while a token was held, and a call made
\* after it failed without a transport call
C31_Witness ==
  \E j, k \in SvcCalls :
    /\ svcCalls[j].status = 401
    /\ svcCalls[k].afterExpiry
    /\ svcCalls[k].err = "Not authenticated"

\* ================================================================= debounce
\* debounce of INTERVIEW-PREP.md and of the cheat sheet ("closure": timeoutId is
\* a variable of each debounce() call), of the Debounce Pattern ("pattern":
\* timeoutId is declared outside debounce) and SearchService.debounce
\* ("service": this.debounceTimer of the instance)
MaxFns == 2           \* debounced functions made by separate debounce() calls
MaxInvokes == 3       \* invocations of them
MaxDebounceClock == 3 \* the time stops here
DebounceDelay == 1    \* delay, in clock units

DebounceImpls == {"closure", "pattern", "service"}
Fns == 1 .. MaxFns
Invokes == 1 .. MaxInvokes

\* the variable that holds the timer of debounced function f
Slot(f) == IF dimpl = "closure" THEN f ELSE 1

\* st is the position of the invocation: "idle", "pending" (its timer is set),
\* "cancelled" (its timer was cleared), "ran" (func was called); fn is the
\* debounced function invoked, due the time its timer is due; by is history:
\* the debounced function whose invocation cleared the timer
IdleInvoke == [st |-> "idle", fn |-> 0, due |-> 0, by |-> 0]

InitDebounce ==
  /\ dimpl \in DebounceImpls
  /\ dtimer = [s \in Fns |-> NoTimer]
  /\ dclock = 0
  /\ invs = [n \in Invokes |-> IdleInvoke]

\* clearTimeout(timeoutId), called by debounced function f
ClearDebounce(f) ==
  LET id == dtimer[Slot(f)] IN
  IF id # NoTimer /\ invs[id].st = "pending"
    THEN [invs EXCEPT ![id] = [@ EXCEPT !.st = "cancelled", !.by = f]]
    ELSE invs

\* the debounced function f is invoked: clearTimeout, setTimeout
Debounced(n, f) ==
  /\ invs[n].st = "idle"
  /\ \A j \in Invokes : j < n => invs[j].st # "idle"
  /\ invs' = [ClearDebounce(f) EXCEPT ![n] =
                [st |-> "pending", fn |-> f, due |-> dclock + DebounceDelay,
                 by |-> 0]]
  /\ dtimer' = [dtimer EXCEPT ![Slot(f)] = n]
  /\ UNCHANGED <<dimpl, dclock, nonDebounceVars>>

\* the timer of invocation n fires: func(...args)
DebounceFire(n) ==
  /\ invs[n].st = "pending"
  /\ dclock >= invs[n].due
  /\ invs' = [invs EXCEPT ![n].st = "ran"]
  /\ UNCHANGED <<dimpl, dtimer, dclock, nonDebounceVars>>

\* time passes
DebounceTick ==
  /\ dclock < MaxDebounceClock
  /\ dclock' = dclock + 1
  /\ UNCHANGED <<dimpl, dtimer, invs, nonDebounceVars>>

NextDebounce ==
  \/ \E n \in Invokes, f \in Fns : Debounced(n, f)
  \/ \E n \in Invokes : DebounceFire(n)
  \/ DebounceTick

\* ---------------------------------------------------------- debounce claims
\* C33: invoking one debounced function never cancels the pending invocation of
\* a debounced function made by another debounce() call.
C33_DebouncedIndependent ==
  \A n \in Invokes : invs[n].st = "cancelled" => invs[n].by = invs[n].fn

\* ========================================================== specifications
\* The parts of the corpus are independent objects: each specification runs one
\* of them, the others staying as constructed.

\* an AuthAPI object nobody calls
AuthUnused ==
  /\ token = Null /\ refreshPromise = NoPromise /\ stored = Null
  /\ req = [q \in Reqs |-> IdleReq] /\ ref = [r \in Refs |-> "none"]
  /\ refreshCount = 0 /\ loginSt = "idle" /\ sessionUsed = FALSE
  /\ logoutMark = FALSE

\* a cache nobody calls
CacheUnused ==
  /\ impl = "RequestCache" /\ ttl = 1 /\ now = 0 /\ cache = EmptyMap
  /\ call = [c \in Calls |-> IdleCall]

\* no retry wrapper is called
RetryUnused ==
  /\ rimpl = "guide" /\ maxRetries = 0 /\ baseDelay = 1000 /\ rst = "idle"
  /\ attempt = 0 /\ delay = 1000 /\ rerr = NoErr /\ sent = 0
  /\ outs = <<>> /\ waits = <<>> /\ waited = <<>>

\* no timeout wrapper is called
TimeoutUnused ==
  /\ timpl = "solution" /\ hasSignal = FALSE /\ sigAborted = FALSE
  /\ tst = "idle" /\ timer = "none"
  /\ ctlAborted = FALSE /\ tstatus = 0 /\ terr = NoErr
  /\ callerAborted = FALSE /\ abortedByCaller = FALSE

\* a search object nobody calls
SearchUnused ==
  /\ simpl = "DebouncedSearch" /\ timeoutId = NoTimer
  /\ abortController = NoController /\ latestSearchId = 0
  /\ searches = [k \in Searches |-> IdleSearch] /\ requests = <<>>
  /\ sclock = 0 /\ burst = TRUE

\* a feed nobody calls
FeedUnused ==
  /\ fimpl = "PaginatedFeed" /\ page = 0 /\ items = <<>> /\ isLoading = FALSE
  /\ hasMore = TRUE /\ loads = [k \in Loads |-> IdleLoad] /\ requested = <<>>
  /\ resetUsed = FALSE /\ pristine = FALSE

\* a batcher nobody calls
BatcherUnused ==
  /\ bimpl = "guide" /\ queue = <<>> /\ btimer = NoTimer /\ bclock = 0
  /\ breqs = [k \in Adds |-> IdleAdd] /\ batches = <<>>

\* a LongPolling instance nobody starts
PollingUnused ==
  /\ isPolling = FALSE /\ loops = [k \in Starts |-> "idle"] /\ polls = 0
  /\ delivered = 0 /\ stopMark = NotStopped

\* myPromiseAll is not called
AllUnused ==
  /\ inputs = 0 /\ pst = [i \in Inputs |-> "pending"]
  /\ results = [i \in Inputs |-> Hole] /\ completed = 0
  /\ allSt = [st |-> "none", val |-> <<>>] /\ order = <<>>

\* uploadFile is not called
UploadUnused ==
  /\ usignal = "none" /\ onProgress = FALSE /\ xhr = "unsent" /\ loaded = 0
  /\ reported = -1 /\ upload = NoUpload /\ cancelled = FALSE

\* an AuthService nobody calls
SvcUnused ==
  /\ svcToken = Null /\ svcStored = Null /\ svcLogins = [k \in SvcLogins |-> "idle"]
  /\ svcCalls = [k \in SvcCalls |-> IdleSvcCall] /\ expired = FALSE

\* no debounced function is invoked
DebounceUnused ==
  /\ dimpl = "closure" /\ dtimer = [s \in Fns |-> NoTimer] /\ dclock = 0
  /\ invs = [n \in Invokes |-> IdleInvoke]

\* The AuthAPI object alone: no other object is used
InitAuthOnly ==
  /\ InitAuth
  /\ CacheUnused
  /\ RetryUnused
  /\ TimeoutUnused
  /\ SearchUnused
  /\ FeedUnused
  /\ BatcherUnused
  /\ PollingUnused
  /\ AllUnused
  /\ UploadUnused
  /\ SvcUnused
  /\ DebounceUnused

SpecAuth == InitAuthOnly /\ [][NextAuth]_vars

\* A cache object alone
InitCacheOnly ==
  /\ InitCache
  /\ AuthUnused
  /\ RetryUnused
  /\ TimeoutUnused
  /\ SearchUnused
  /\ FeedUnused
  /\ BatcherUnused
  /\ PollingUnused
  /\ AllUnused
  /\ UploadUnused
  /\ SvcUnused
  /\ DebounceUnused

SpecCache == InitCacheOnly /\ [][NextCache]_vars

\* A call of a retry wrapper alone
InitRetryOnly ==
  /\ InitRetry
  /\ AuthUnused
  /\ CacheUnused
  /\ TimeoutUnused
  /\ SearchUnused
  /\ FeedUnused
  /\ BatcherUnused
  /\ PollingUnused
  /\ AllUnused
  /\ UploadUnused
  /\ SvcUnused
  /\ DebounceUnused

SpecRetry == InitRetryOnly /\ [][NextRetry]_vars

\* A call of a timeout wrapper alone
InitTimeoutOnly ==
  /\ InitTimeout
  /\ AuthUnused
  /\ CacheUnused
  /\ RetryUnused
  /\ SearchUnused
  /\ FeedUnused
  /\ BatcherUnused
  /\ PollingUnused
  /\ AllUnused
  /\ UploadUnused
  /\ SvcUnused
  /\ DebounceUnused

SpecTimeout == InitTimeoutOnly /\ [][NextTimeout]_vars

\* A search object alone
InitSearchOnly ==
  /\ InitSearch
  /\ AuthUnused
  /\ CacheUnused
  /\ RetryUnused
  /\ TimeoutUnused
  /\ FeedUnused
  /\ BatcherUnused
  /\ PollingUnused
  /\ AllUnused
  /\ UploadUnused
  /\ SvcUnused
  /\ DebounceUnused

SpecSearch == InitSearchOnly /\ [][NextSearch]_vars

\* The search object in a running page: time passes, a timer that is due fires
\* and a request that was sent ends
SearchFairness ==
  /\ WF_vars(SearchTick)
  /\ \A k \in Searches : WF_vars(SearchTimer(k))
  /\ \A k \in Searches : WF_vars(\E o \in SearchOutcomes : SearchResponse(k, o))

SpecSearchLive == InitSearchOnly /\ [][NextSearch]_vars /\ SearchFairness

\* A paginated feed alone
InitFeedOnly ==
  /\ InitFeed
  /\ AuthUnused
  /\ CacheUnused
  /\ RetryUnused
  /\ TimeoutUnused
  /\ SearchUnused
  /\ BatcherUnused
  /\ PollingUnused
  /\ AllUnused
  /\ UploadUnused
  /\ SvcUnused
  /\ DebounceUnused

SpecFeed == InitFeedOnly /\ [][NextFeed]_vars

\* A request batcher alone
InitBatcherOnly ==
  /\ InitBatcher
  /\ AuthUnused
  /\ CacheUnused
  /\ RetryUnused
  /\ TimeoutUnused
  /\ SearchUnused
  /\ FeedUnused
  /\ PollingUnused
  /\ AllUnused
  /\ UploadUnused
  /\ SvcUnused
  /\ DebounceUnused

SpecBatcher == InitBatcherOnly /\ [][NextBatcher]_vars

\* A LongPolling instance alone
InitPollingOnly ==
  /\ InitPolling
  /\ AuthUnused
  /\ CacheUnused
  /\ RetryUnused
  /\ TimeoutUnused
  /\ SearchUnused
  /\ FeedUnused
  /\ BatcherUnused
  /\ AllUnused
  /\ UploadUnused
  /\ SvcUnused
  /\ DebounceUnused

SpecPolling == InitPollingOnly /\ [][NextPolling]_vars

\* One myPromiseAll call alone
InitAllOnly ==
  /\ InitAll
  /\ AuthUnused
  /\ CacheUnused
  /\ RetryUnused
  /\ TimeoutUnused
  /\ SearchUnused
  /\ FeedUnused
  /\ BatcherUnused
  /\ PollingUnused
  /\ UploadUnused
  /\ SvcUnused
  /\ DebounceUnused

SpecAll == InitAllOnly /\ [][NextAll]_vars

\* One uploadFile call alone
InitUploadOnly ==
  /\ InitUpload
  /\ AuthUnused
  /\ CacheUnused
  /\ RetryUnused
  /\ TimeoutUnused
  /\ SearchUnused
  /\ FeedUnused
  /\ BatcherUnused
  /\ PollingUnused
  /\ AllUnused
  /\ SvcUnused
  /\ DebounceUnused

SpecUpload == InitUploadOnly /\ [][NextUpload]_vars

\* An AuthService alone
InitSvcOnly ==
  /\ InitSvc
  /\ AuthUnused
  /\ CacheUnused
  /\ RetryUnused
  /\ TimeoutUnused
  /\ SearchUnused
  /\ FeedUnused
  /\ BatcherUnused
  /\ PollingUnused
  /\ AllUnused
  /\ UploadUnused
  /\ DebounceUnused

SpecSvc == InitSvcOnly /\ [][NextSvc]_vars

\* Debounced functions alone
InitDebounceOnly ==
  /\ InitDebounce
  /\ AuthUnused
  /\ CacheUnused
  /\ RetryUnused
  /\ TimeoutUnused
  /\ SearchUnused
  /\ FeedUnused
  /\ BatcherUnused
  /\ PollingUnused
  /\ AllUnused
  /\ UploadUnused
  /\ SvcUnused

SpecDebounce == InitDebounceOnly /\ [][NextDebounce]_vars

====
